---- MODULE Spec2Model ----
(***************************************************************************)
(* Arena engine, run registry, arena routes and the /arena socket          *)
(* namespace of StrategicInteractionLab.                                   *)
(*                                                                         *)
(* Numbers.  JavaScript doubles are modelled in fixed point: a real x is   *)
(* the integer x * SCALE, rounded down.  Hedge weights are kept as their   *)
(* natural logarithms (w = exp(lw)), so that w * exp(d) is lw + d; the     *)
(* strategy normalize(w) is computed from the weights relative to the      *)
(* largest one, which leaves every quotient w[i] / sum(w) unchanged.       *)
(* 32-bit words are pairs <<hi, lo>> of 16-bit halves.                     *)
(***************************************************************************)
EXTENDS Integers, Sequences, FiniteSets, TLC

\* ------------------------------------------------------------------ bounds
\* runs started, sockets connected, runs and sockets together, interval
\* callbacks run (over all runs)
MaxRuns == 2
MaxSockets == 2
MaxObjects == 3
MaxTicks == 2
\* evaluations started
MaxEvalRuns == 2
\* training requests handled
MaxTrainCalls == 2
\* steps of a stepper under test
MaxBenchSteps == 1430
\* interval handles handed out
MaxHandles == 3

\* --------------------------------------------------------- program constants
SCALE == 1000
DefaultLr == 500
DefaultStepsPerTick == 10
DefaultSeed == 1234

\* ------------------------------------------------------------ 32-bit words
H16 == 65536

RECURSIVE BitXor(_, _, _)
BitXor(a, b, n) ==
  IF n = 0 THEN 0
  ELSE (((a % 2) + (b % 2)) % 2) + 2 * BitXor(a \div 2, b \div 2, n - 1)

RECURSIVE BitOr(_, _, _)
BitOr(a, b, n) ==
  IF n = 0 THEN 0
  ELSE (IF a % 2 = 1 \/ b % 2 = 1 THEN 1 ELSE 0) + 2 * BitOr(a \div 2, b \div 2, n - 1)

\* a ^ b for bytes, tabulated
XorByte == [a \in 0..255 |-> [b \in 0..255 |-> BitXor(a, b, 8)]]

Xor16(a, b) == (XorByte[a \div 256][b \div 256] * 256) + XorByte[a % 256][b % 256]

\* seed >>> 0 for an integer seed
ToUint32(n) == <<(n \div H16) % H16, (n % H16)>>

Xor32(a, b) == <<Xor16(a[1], b[1]), Xor16(a[2], b[2])>>

\* c | b for c, b < 64, tabulated
OrLow == [c \in {1, 61} |-> [b \in 0..63 |-> BitOr(b, c, 6)]]

\* c | a for the constants 1 and 61
Or32Small(c, a) == <<a[1], (a[2] - (a[2] % 64)) + OrLow[c][a[2] % 64]>>

\* a >>> k for d = 2^k, 0 < k < 16
Shr32(a, d) == <<a[1] \div d, ((a[1] % d) * (H16 \div d)) + (a[2] \div d)>>

Add32(a, b) ==
  LET lo == a[2] + b[2]
  IN <<(a[1] + b[1] + (lo \div H16)) % H16, (lo % H16)>>

\* (a * b) mod 2^16 for 16-bit a, b, without leaving 31 bits
MulLow16(a, b) ==
  ((((((a \div 256) * (b % 256)) + ((a % 256) * (b \div 256))) % 256) * 256)
     + ((a % 256) * (b % 256))) % H16

\* Math.imul: the low 32 bits of a * b
Imul(a, b) ==
  LET a1 == a[2] \div 256
      a0 == a[2] % 256
      b1 == b[2] \div 256
      b0 == b[2] % 256
      low == (((a1 * b0) + (a0 * b1)) * 256) + (a0 * b0)
  IN <<((a1 * b1) + (low \div H16) + MulLow16(a[1], b[2]) + MulLow16(a[2], b[1])) % H16,
       (low % H16)>>

\* 0x6D2B79F5
MulberryInc == <<27947, 31221>>

\* one call of the generator closure: the new t and the word before / 2^32
mulberry32(t) ==
  LET t1 == Add32(t, MulberryInc)
      x1 == Imul(Xor32(t1, Shr32(t1, 32768)), Or32Small(1, t1))
      x2 == Xor32(x1, Add32(x1, Imul(Xor32(x1, Shr32(x1, 128)), Or32Small(61, x1))))
      x3 == Xor32(x2, Shr32(x2, 16384))
  IN [t |-> t1, word |-> x3]

\* word / 4294967296 in fixed point
ToUnit(w) == ((w[1] * SCALE) + ((w[2] * SCALE) \div H16)) \div H16

\* ------------------------------------------------------------ fixed point
ExpTerms == 7
\* e^-1
InvE == 368

RECURSIVE ExpSeries(_, _)
\* exp(-f) for 0 <= f < 1, as the alternating series in Horner form
ExpSeries(f, k) ==
  IF k > ExpTerms THEN SCALE
  ELSE SCALE - ((f * ExpSeries(f, k + 1)) \div (k * SCALE))

RECURSIVE ExpScale(_, _)
ExpScale(v, n) == IF n = 0 \/ v = 0 THEN v ELSE ExpScale((v * InvE) \div SCALE, n - 1)

\* Math.exp(-x) for x >= 0
ExpNeg(x) == ExpScale(ExpSeries(x % SCALE, 1), x \div SCALE)

\* type Vec = number[]: the array with its elements computed
Vec(f) == f \o <<>>

RECURSIVE SumSeq(_)
SumSeq(v) == IF v = <<>> THEN 0 ELSE Head(v) + SumSeq(Tail(v))

RECURSIVE MaxSeq(_)
MaxSeq(v) ==
  IF Len(v) = 1 THEN v[1]
  ELSE LET m == MaxSeq(Tail(v)) IN IF v[1] >= m THEN v[1] ELSE m

Abs(x) == IF x < 0 THEN -x ELSE x

\* doubles outside the finite range: Infinity, -Infinity as a logarithm (the
\* double 0) and NaN
PosInf == 1073741824
NegInf == -PosInf
NaN == PosInf + 1
\* Math.exp(x) is Infinity above ln(Number.MAX_VALUE) and 0 below ln(2^-1075)
LnMaxDouble == 709782
LnMinDouble == -745133

\* w * Math.exp(d), on the logarithm lw of w
HasNaN(v) == \E i \in 1..Len(v) : v[i] = NaN
AllNaN(n) == [i \in 1..n |-> NaN]

scaleWeight(lw, d) ==
  IF lw > LnMinDouble /\ lw < LnMaxDouble /\ d > LnMinDouble /\ d < LnMaxDouble
     /\ lw + d >= LnMinDouble /\ lw + d <= LnMaxDouble
  THEN lw + d
  ELSE IF lw = NaN \/ d = NaN THEN NaN
  ELSE IF lw = PosInf THEN (IF d < LnMinDouble THEN NaN ELSE PosInf)
  ELSE IF lw = NegInf THEN (IF d > LnMaxDouble THEN NaN ELSE NegInf)
  ELSE IF d > LnMaxDouble \/ lw + d > LnMaxDouble THEN PosInf
  ELSE IF d < LnMinDouble \/ lw + d < LnMinDouble THEN NegInf
  ELSE lw + d

\* ------------------------------------------------------------------ games
GameIds == {"rps", "mp", "pd"}

GAMES(g) ==
  CASE g = "rps" ->
         [nA |-> 3, nB |-> 3,
          A |-> << <<0, -1, 1>>, <<1, 0, -1>>, <<-1, 1, 0>> >>,
          B |-> << <<0, 1, -1>>, <<-1, 0, 1>>, <<1, -1, 0>> >>]
    [] g = "mp" ->
         [nA |-> 2, nB |-> 2,
          A |-> << <<1, -1>>, <<-1, 1>> >>,
          B |-> << <<-1, 1>>, <<1, -1>> >>]
    [] g = "pd" ->
         [nA |-> 2, nB |-> 2,
          A |-> << <<3, 0>>, <<5, 1>> >>,
          B |-> << <<3, 5>>, <<0, 1>> >>]

\* ------------------------------------------------------- strategy primitives
normalize(v) ==
  LET s == SumSeq(v)
  IN IF s <= 0 THEN [i \in 1..Len(v) |-> SCALE \div Len(v)]
     ELSE [i \in 1..Len(v) |-> (v[i] * SCALE) \div s]

\* a NaN in opp makes every sum NaN: 0 * NaN is NaN
expectedPayoffVector(M, opp) ==
  IF HasNaN(opp) THEN AllNaN(Len(M))
  ELSE [i \in 1..Len(M) |-> SumSeq([j \in 1..Len(M[i]) |-> M[i][j] * opp[j]])]

RECURSIVE sampleScan(_, _, _, _)
\* r <= acc is false once acc is NaN
sampleScan(p, r, i, acc) ==
  IF i > Len(p) THEN Len(p) - 1
  ELSE IF acc = NaN \/ p[i] = NaN THEN sampleScan(p, r, i + 1, NaN)
  ELSE IF r <= acc + p[i] THEN i - 1
  ELSE sampleScan(p, r, i + 1, acc + p[i])

\* r is the draw rng() the caller has made; the index returned is 0-based
sampleIndex(p, r) == sampleScan(p, r, 1, 0)

\* the weights exp(lw[i]) divided by the largest of them
relWeights(lw) ==
  LET top == MaxSeq(lw)
  IN [i \in 1..Len(lw) |-> ExpNeg(top - lw[i])]

\* (lr / s) * u[i] with s = Math.max(1, ...u.map(Math.abs))
hedgeGain(lr, u) ==
  IF HasNaN(u) THEN AllNaN(Len(u))
  ELSE LET s == MaxSeq(<<SCALE>> \o [i \in 1..Len(u) |-> Abs(u[i])])
       IN Vec([i \in 1..Len(u) |-> (lr * u[i]) \div s])

\* normalize(w) of the weights whose logarithms are lw: the sum is NaN when a
\* weight is, and Infinity when a weight is or when the finite weights add up
\* to more than Number.MAX_VALUE
hedgeStrategy(lw) ==
  LET n == Len(lw)
  IN IF \A i \in 1..n : lw[i] > NegInf /\ lw[i] < LnMaxDouble - 2 * SCALE
     THEN normalize(relWeights(lw))
     ELSE IF HasNaN(lw) THEN AllNaN(n)
     ELSE IF \E i \in 1..n : lw[i] = PosInf
          THEN [i \in 1..n |-> IF lw[i] = PosInf THEN NaN ELSE 0]
     ELSE IF \A i \in 1..n : lw[i] = NegInf THEN [i \in 1..n |-> SCALE \div n]
     ELSE IF /\ MaxSeq(lw) > LnMaxDouble - 2 * SCALE
             /\ SumSeq([i \in 1..n |-> IF lw[i] = NegInf THEN 0
                                        ELSE ExpNeg(LnMaxDouble - lw[i])]) > SCALE
          THEN [i \in 1..n |-> 0]
     ELSE normalize(relWeights(lw))

\* ------------------------------------------------------------ arena engine
NoTimer == 0

\* an optional value: <<>> is undefined, <<v>> is v; stepsPerTick and lr are in
\* fixed point, the seed is an integer
Opt(o, default) == IF o = <<>> THEN default ELSE o[1]

\* createRunner: the closure's variables; run_id stands for uuidv4()
createRunner(opts, id) ==
  LET spec == GAMES(opts.game)
      lr == Opt(opts.lr, DefaultLr)
      given == Opt(opts.stepsPerTick, DefaultStepsPerTick * SCALE)
      seed == Opt(opts.seed, DefaultSeed)
      onesA == [i \in 1..spec.nA |-> 0]
      onesB == [i \in 1..spec.nB |-> 0]
  IN [run_id |-> id,
      game |-> opts.game,
      lr |-> lr,
      stepsPerTick |-> IF given >= SCALE THEN given ELSE SCALE,
      rng |-> ToUint32(seed),
      lwA |-> onesA,
      lwB |-> onesB,
      pA |-> normalize(relWeights(onesA)),
      pB |-> normalize(relWeights(onesB)),
      jointCounts |-> [i \in 1..spec.nA |-> [j \in 1..spec.nB |-> 0]],
      iter |-> 0,
      lastActionA |-> 0,
      lastActionB |-> 0,
      rewardA |-> 0,
      rewardB |-> 0,
      timer |-> NoTimer,
      listeners |-> <<>>]

\* a stepOnce that counts every joint action in the first cell
stepOnceCountsFirstCell(run) ==
  LET spec == GAMES(run.game)
      uA == Vec(expectedPayoffVector(spec.A, run.pB))
      uB == Vec(expectedPayoffVector(spec.B, run.pA))
      gA == hedgeGain(run.lr, uA)
      gB == hedgeGain(run.lr, uB)
      lwA == Vec([i \in 1..Len(uA) |-> scaleWeight(run.lwA[i], gA[i])])
      lwB == Vec([i \in 1..Len(uB) |-> scaleWeight(run.lwB[i], gB[i])])
      pA == hedgeStrategy(lwA)
      pB == hedgeStrategy(lwB)
      d1 == mulberry32(run.rng)
      d2 == mulberry32(d1.t)
      a == sampleIndex(pA, ToUnit(d1.word))
      b == sampleIndex(pB, ToUnit(d2.word))
  IN [run EXCEPT !.lwA = lwA, !.lwB = lwB, !.pA = pA, !.pB = pB,
                 !.rng = d2.t,
                 !.lastActionA = a, !.lastActionB = b,
                 !.rewardA = spec.A[a + 1][b + 1],
                 !.rewardB = spec.B[a + 1][b + 1],
                 !.jointCounts[1][1] = @ + 1,
                 !.iter = @ + 1]

stepOnce(run) ==
  LET spec == GAMES(run.game)
      uA == Vec(expectedPayoffVector(spec.A, run.pB))
      uB == Vec(expectedPayoffVector(spec.B, run.pA))
      gA == hedgeGain(run.lr, uA)
      gB == hedgeGain(run.lr, uB)
      lwA == Vec([i \in 1..Len(uA) |-> scaleWeight(run.lwA[i], gA[i])])
      lwB == Vec([i \in 1..Len(uB) |-> scaleWeight(run.lwB[i], gB[i])])
      pA == hedgeStrategy(lwA)
      pB == hedgeStrategy(lwB)
      d1 == mulberry32(run.rng)
      d2 == mulberry32(d1.t)
      a == sampleIndex(pA, ToUnit(d1.word))
      b == sampleIndex(pB, ToUnit(d2.word))
  IN [run EXCEPT !.lwA = lwA, !.lwB = lwB, !.pA = pA, !.pB = pB,
                 !.rng = d2.t,
                 !.lastActionA = a, !.lastActionB = b,
                 !.rewardA = spec.A[a + 1][b + 1],
                 !.rewardB = spec.B[a + 1][b + 1],
                 !.jointCounts[a + 1][b + 1] = @ + 1,
                 !.iter = @ + 1]

RECURSIVE stepLoop(_, _)
\* for (let i = 0; i < stepsPerTick; i++) stepOnce(), from i on
stepLoop(run, i) ==
  IF i * SCALE < run.stepsPerTick THEN stepLoop(stepOnce(run), i + 1) ELSE run

stepTimes(run) == stepLoop(run, 0)

\* the TickPayload built by emitTick and by getState
snapshot(run) ==
  [iter |-> run.iter,
   rewardA |-> run.rewardA,
   rewardB |-> run.rewardB,
   rewardMean |-> ((run.rewardA + run.rewardB) * SCALE) \div 2,
   distA |-> run.pA,
   distB |-> run.pB,
   lastActionA |-> run.lastActionA,
   lastActionB |-> run.lastActionB,
   jointCounts |-> run.jointCounts]

\* a getState that advances the run before it answers
getStateAdvancing(run) == snapshot(stepOnce(run))

getState(run) == snapshot(run)

\* a start that arms an interval whether or not one is armed
runnerStartAgain(run, active, h) ==
  [run |-> [run EXCEPT !.timer = h], active |-> active \cup {h}]

\* start: setInterval hands out the fresh handle h
runnerStart(run, active, h) ==
  IF run.timer # NoTimer THEN [run |-> run, active |-> active]
  ELSE [run |-> [run EXCEPT !.timer = h], active |-> active \cup {h}]

\* stop that forgets clearInterval
runnerStopKeepsInterval(run, active) ==
  [run |-> [run EXCEPT !.timer = NoTimer], active |-> active]

\* stop: clearInterval(timer); timer = null
runnerStop(run, active) ==
  [run |-> [run EXCEPT !.timer = NoTimer],
   active |-> IF run.timer # NoTimer THEN active \ {run.timer} ELSE active]

Range(q) == {q[i] : i \in 1..Len(q)}

RECURSIVE Without(_, _)
Without(q, x) ==
  IF q = <<>> THEN <<>>
  ELSE IF Head(q) = x THEN Without(Tail(q), x)
  ELSE <<Head(q)>> \o Without(Tail(q), x)

\* onTick: listeners.add(cb)
onTick(run, cb) ==
  IF cb \in Range(run.listeners) THEN run
  ELSE [run EXCEPT !.listeners = Append(@, cb)]

\* the function onTick returns: listeners.delete(cb)
unsubscribe(run, cb) == [run EXCEPT !.listeners = Without(@, cb)]

\* emitTick's loop: the callbacks it calls when the one at position thrower
\* (0: none) throws
emitCalls(listeners, thrower) ==
  IF thrower = 0 THEN listeners ELSE SubSeq(listeners, 1, thrower)

\* those of the calls that returned
emitReturned(listeners, thrower) ==
  IF thrower = 0 THEN listeners ELSE SubSeq(listeners, 1, thrower - 1)

\* ------------------------------------------------------------ run registry
NoRun == 0

storeRegister(m, id) == IF id \in Range(m) THEN m ELSE Append(m, id)

storeGet(m, id) == IF id \in Range(m) THEN id ELSE NoRun

list(m) == m

\* a stop that leaves the entry in the map
storeStopKeepsEntry(m, rs, act, id) ==
  IF storeGet(m, id) = NoRun
  THEN [ok |-> FALSE, map |-> m, runners |-> rs, intervals |-> act]
  ELSE LET st == runnerStop(rs[id], act[id])
       IN [ok |-> TRUE,
           map |-> m,
           runners |-> [rs EXCEPT ![id] = st.run],
           intervals |-> [act EXCEPT ![id] = st.active]]

\* a stop that answers true whether or not it found the run
storeStopAlwaysTrue(m, rs, act, id) ==
  IF storeGet(m, id) = NoRun
  THEN [ok |-> TRUE, map |-> m, runners |-> rs, intervals |-> act]
  ELSE LET st == runnerStop(rs[id], act[id])
       IN [ok |-> TRUE,
           map |-> Without(m, id),
           runners |-> [rs EXCEPT ![id] = st.run],
           intervals |-> [act EXCEPT ![id] = st.active]]

\* a stop that empties the map
storeStopClearsMap(m, rs, act, id) ==
  IF storeGet(m, id) = NoRun
  THEN [ok |-> FALSE, map |-> m, runners |-> rs, intervals |-> act]
  ELSE LET st == runnerStop(rs[id], act[id])
       IN [ok |-> TRUE,
           map |-> <<>>,
           runners |-> [rs EXCEPT ![id] = st.run],
           intervals |-> [act EXCEPT ![id] = st.active]]

\* stop(run_id): the value returned and the registry, runners and timers after
storeStop(m, rs, act, id) ==
  IF storeGet(m, id) = NoRun
  THEN [ok |-> FALSE, map |-> m, runners |-> rs, intervals |-> act]
  ELSE LET st == runnerStop(rs[id], act[id])
       IN [ok |-> TRUE,
           map |-> Without(m, id),
           runners |-> [rs EXCEPT ![id] = st.run],
           intervals |-> [act EXCEPT ![id] = st.active]]

\* ------------------------------------------------------------------ state
VARIABLES
  runners,     \* the Runner closures ever created, by run_id
  map,         \* the registry's keys, in insertion order
  intervals,   \* per run, the interval handles the event loop still fires
  nextHandle,  \* the next handle setInterval returns
  sockets,     \* the /arena sockets ever connected
  ticks,       \* per run, the number of interval callbacks that have run
  payloads,    \* per run, the payload of the latest emitTick (<<>>: none yet)
  emit,        \* what the step just taken notified, when it was a tick
  resp,        \* what the step just taken answered, when it was a request
  crashed      \* an exception left a timer callback: the process is gone

vars == <<runners, map, intervals, nextHandle, sockets, ticks, payloads, emit,
          resp, crashed>>

VARIABLES
  evalRuns,       \* table eval_runs, by id
  evalMetrics,    \* table eval_metrics: per run_id, its rows in insertion order
  evalSummaries,  \* table eval_summaries: per run_id, its rows in insertion order
  evalCalls,      \* the POST /api/eval/start handlers past validation
  evalResp        \* what the step just taken answered, when it was an eval request

evalVars == <<evalRuns, evalMetrics, evalSummaries, evalCalls, evalResp>>

\* the state of the batch drivers, which the arena never touches
\* the rl routes: requests handled so far, the call being handled (its
\* configuration and the runs of trainSelfPlay it makes), the last response
VARIABLES trainCount, trainCall, trainResp
trainVars == <<trainCount, trainCall, trainResp>>

\* the functions under test: the last call of sampleIndex with its arguments
\* and the index it returned; a Hedge runner of the arena and the steppers of
\* an episode of the evaluator, stepped side by side
VARIABLES sampleCall, bench
probeVars == <<sampleCall, bench>>
batchVars == <<evalVars, trainVars, probeVars>>

allVars == <<vars, batchVars>>

NoEvalResp == [op |-> "none", status |-> 0, body |-> <<>>]

EvalInit ==
  /\ evalRuns = <<>>
  /\ evalMetrics = <<>>
  /\ evalSummaries = <<>>
  /\ evalCalls = <<>>
  /\ evalResp = NoEvalResp

NoTrainCall == [kind |-> "none", cfg |-> <<>>, runs |-> <<>>]
NoTrainResp == [op |-> "none", status |-> 0, body |-> <<>>]

TrainInit ==
  /\ trainCount = 0
  /\ trainCall = NoTrainCall
  /\ trainResp = NoTrainResp

NoSampleCall == [p |-> <<>>, r |-> 0, index |-> 0]
NoBench == [game |-> "", algA |-> "", algB |-> "", n |-> 0, run |-> <<>>, e |-> <<>>]

ProbeInit ==
  /\ sampleCall = NoSampleCall
  /\ bench = NoBench

MissingId == -1
UnknownId == 0
NoBody == <<>>

RunIds == 1..Len(runners)
SocketIds == 1..Len(sockets)

NoResp == [op |-> "none", id |-> MissingId, status |-> 0, body |-> NoBody]
\* run: the run that ticked; called: the callbacks emitTick invoked, in order;
\* returned: those of them that returned, each having emitted to its room
NoEmit == [run |-> NoRun, called |-> <<>>, returned |-> <<>>]

\* request bodies of POST /api/arena/start
StartBodies ==
  { [game |-> "rps", stepsPerTick |-> <<0>>, seed |-> <<>>, lr |-> <<0>>],
    [game |-> "pd", stepsPerTick |-> <<2500>>, seed |-> <<7>>, lr |-> <<250>>],
    [game |-> "chess", stepsPerTick |-> <<-3000>>, seed |-> <<0>>, lr |-> <<>>] }

\* the options the start route passes on: stepsPerTick = 10 when undefined,
\* Number(stepsPerTick) || 10, seed ? Number(seed) : undefined, the same for lr
startOptions(body) ==
  [game |-> body.game,
   stepsPerTick |-> IF body.stepsPerTick = <<>> \/ body.stepsPerTick = <<0>>
                    THEN <<DefaultStepsPerTick * SCALE>> ELSE body.stepsPerTick,
   seed |-> IF body.seed = <<0>> THEN <<>> ELSE body.seed,
   lr |-> IF body.lr = <<0>> THEN <<>> ELSE body.lr]

Init ==
  /\ runners = <<>>
  /\ map = <<>>
  /\ intervals = <<>>
  /\ nextHandle = 1
  /\ sockets = <<>>
  /\ ticks = <<>>
  /\ payloads = <<>>
  /\ emit = NoEmit
  /\ resp = NoResp
  /\ crashed = FALSE
  /\ EvalInit
  /\ TrainInit
  /\ ProbeInit

\* POST /api/arena/start
StartRoute(body) ==
  /\ ~crashed
  /\ IF body.game \notin GameIds
     THEN /\ resp' = [op |-> "start", id |-> MissingId, status |-> 400, body |-> NoBody]
          /\ UNCHANGED <<runners, map, intervals, nextHandle, ticks, payloads>>
     ELSE /\ Len(runners) < MaxRuns
          /\ Len(runners) + Len(sockets) < MaxObjects
          /\ LET id == Len(runners) + 1
                 st == runnerStart(createRunner(startOptions(body), id), {}, nextHandle)
             IN /\ runners' = Append(runners, st.run)
                /\ map' = storeRegister(map, id)
                /\ intervals' = Append(intervals, st.active)
                /\ resp' = [op |-> "start", id |-> id, status |-> 200, body |-> NoBody]
          /\ nextHandle' = nextHandle + 1
          /\ ticks' = Append(ticks, 0)
          /\ payloads' = Append(payloads, <<>>)
  /\ emit' = NoEmit
  /\ UNCHANGED <<sockets, crashed>>

\* POST /api/arena/stop
StopRoute(run_id) ==
  /\ ~crashed
  /\ IF run_id = MissingId
     THEN /\ resp' = [op |-> "stop", id |-> run_id, status |-> 400, body |-> NoBody]
          /\ UNCHANGED <<runners, map, intervals>>
     ELSE LET st == storeStop(map, runners, intervals, run_id)
          IN /\ resp' = [op |-> "stop", id |-> run_id,
                         status |-> IF st.ok THEN 200 ELSE 404, body |-> NoBody]
             /\ runners' = st.runners
             /\ map' = st.map
             /\ intervals' = st.intervals
  /\ emit' = NoEmit
  /\ UNCHANGED <<nextHandle, sockets, ticks, payloads, crashed>>

\* GET /api/arena/state/:run_id
StateRoute(run_id) ==
  /\ ~crashed
  /\ resp' = IF storeGet(map, run_id) = NoRun
             THEN [op |-> "state", id |-> run_id, status |-> 404, body |-> NoBody]
             ELSE [op |-> "state", id |-> run_id, status |-> 200,
                   body |-> <<getState(runners[run_id])>>]
  /\ emit' = NoEmit
  /\ UNCHANGED <<runners, map, intervals, nextHandle, sockets, ticks, payloads,
                 crashed>>

\* a socket that has disconnected: it has left its room and spent its unsubscribe
GoneSocket == [room |-> MissingId, sub |-> NoRun, connected |-> FALSE]

\* nsp.on('connection'): the socket joins the room run_id names (none when the
\* query has no run_id) and, when the registry has the run, subscribes callback s
Connect(run_id) ==
  /\ ~crashed
  /\ Len(sockets) < MaxSockets
  /\ Len(runners) + Len(sockets) < MaxObjects
  /\ LET s == Len(sockets) + 1
         r == storeGet(map, run_id)
     IN /\ sockets' = Append(sockets, [room |-> run_id, sub |-> r, connected |-> TRUE])
        /\ runners' = IF r = NoRun THEN runners
                      ELSE [runners EXCEPT ![r] = onTick(@, s)]
  /\ emit' = NoEmit
  /\ resp' = NoResp
  /\ UNCHANGED <<map, intervals, nextHandle, ticks, payloads, crashed>>

\* socket.on('disconnect')
Disconnect(s) ==
  /\ ~crashed
  /\ s \in SocketIds
  /\ sockets[s].connected
  /\ sockets' = [sockets EXCEPT ![s] = GoneSocket]
  /\ runners' = IF sockets[s].sub = NoRun THEN runners
                ELSE [runners EXCEPT ![sockets[s].sub] = unsubscribe(@, s)]
  /\ emit' = NoEmit
  /\ resp' = NoResp
  /\ UNCHANGED <<map, intervals, nextHandle, ticks, payloads, crashed>>

\* the interval callback of handle h of run r; any one listener may throw out
\* of its callback, which ends the loop of emitTick and, uncaught, the process
Tick(r, h) ==
  /\ ~crashed
  /\ r \in RunIds
  /\ h \in intervals[r]
  /\ SumSeq(ticks) < MaxTicks
  /\ \E run \in {stepTimes(runners[r])} :
       \E thrower \in 0..Len(run.listeners) :
         /\ runners' = [runners EXCEPT ![r] = run]
         /\ payloads' = [payloads EXCEPT ![r] = <<snapshot(run)>>]
         /\ emit' = [run |-> r,
                     called |-> emitCalls(run.listeners, thrower),
                     returned |-> emitReturned(run.listeners, thrower)]
         /\ crashed' = (thrower # 0)
  /\ ticks' = [ticks EXCEPT ![r] = @ + 1]
  /\ resp' = NoResp
  /\ UNCHANGED <<map, intervals, nextHandle, sockets>>

Next ==
  \/ (\E body \in StartBodies : StartRoute(body)) /\ UNCHANGED batchVars
  \/ (\E id \in RunIds \cup {MissingId, UnknownId} : StopRoute(id)) /\ UNCHANGED batchVars
  \/ (\E id \in RunIds \cup {UnknownId} : StateRoute(id)) /\ UNCHANGED batchVars
  \/ (\E id \in RunIds : Connect(id)) /\ UNCHANGED batchVars
  \/ (\E s \in SocketIds : Disconnect(s)) /\ UNCHANGED batchVars
  \/ (\E r \in RunIds : \E h \in intervals[r] : Tick(r, h)) /\ UNCHANGED batchVars

Spec == Init /\ [][Next]_allVars

\* ------------------------------------------------------------ eval steppers
\* F applied to the value of v, computed once
With(v, F(_)) == CHOOSE r \in {F(x) : x \in {v}} : TRUE

\* number | null and number | undefined: <<>> is null or undefined, <<v>> is v
Null == <<>>

DefaultEta == 500
\* 1e-3 and the reciprocal of 1e-4
MinEta == 1
MaxInvTau == 10000 * SCALE

AlgIds == {"hedge", "regret", "fp"}

\* makeStepper: the closure's variables; w is kept as its logarithms
makeStepper(alg, acts, lr) ==
  [alg |-> alg,
   eta |-> Opt(lr, DefaultEta),
   lw |-> [i \in 1..acts |-> 0],
   p |-> normalize([i \in 1..acts |-> SCALE]),
   R |-> [i \in 1..acts |-> 0],
   oppHist |-> Null,
   t |-> 0]

stepHedge(st, opp, M) ==
  LET u == Vec(expectedPayoffVector(M, opp))
      g == hedgeGain(st.eta, u)
      lw == Vec([i \in 1..Len(u) |-> scaleWeight(st.lw[i], g[i])])
  IN [st EXCEPT !.lw = lw, !.p = hedgeStrategy(lw)]

stepRegret(st, opp, M) ==
  LET u == expectedPayoffVector(M, opp)
      acts == Len(st.R)
      ubar == SumSeq([i \in 1..Len(st.p) |-> st.p[i] * u[i]]) \div SCALE
      R == [i \in 1..acts |->
              IF st.R[i] + (u[i] - ubar) > 0 THEN st.R[i] + (u[i] - ubar) ELSE 0]
      sumPos == SumSeq(R)
  IN IF HasNaN(opp) \/ HasNaN(st.R)
     THEN [st EXCEPT !.R = AllNaN(acts), !.p = AllNaN(acts)]
     ELSE [st EXCEPT !.R = R,
                     !.p = IF sumPos <= 0
                           THEN [i \in 1..acts |-> SCALE \div acts]
                           ELSE [i \in 1..acts |-> (R[i] * SCALE) \div sumPos]]

\* softmax(u, tau), given 1 / Math.max(1e-4, tau)
softmax(u, invTau) ==
  LET m == MaxSeq(u)
      exps == [i \in 1..Len(u) |-> ExpNeg(((m - u[i]) * invTau) \div SCALE)]
      s == SumSeq(exps)
  IN [i \in 1..Len(u) |-> (exps[i] * SCALE) \div (IF s = 0 THEN SCALE ELSE s)]

stepFP(st, opp, M) ==
  LET hist0 == IF st.oppHist = Null \/ Len(st.oppHist[1]) # Len(opp)
               THEN [j \in 1..Len(opp) |-> 0] ELSE st.oppHist[1]
      t == st.t + 1
      hist == [j \in 1..Len(opp) |->
                 IF hist0[j] = NaN \/ opp[j] = NaN THEN NaN ELSE hist0[j] + opp[j]]
      q == [j \in 1..Len(opp) |-> hist[j] \div t]
      u == expectedPayoffVector(M, q)
      eta == IF st.eta > MinEta THEN st.eta ELSE MinEta
      invTau == IF eta < MaxInvTau THEN eta ELSE MaxInvTau
  IN [st EXCEPT !.oppHist = <<hist>>, !.t = t,
                !.p = IF HasNaN(hist) THEN AllNaN(Len(M)) ELSE softmax(u, invTau)]

\* the Stepper makeStepper returned, applied: the closure after the call,
\* whose p is the strategy returned
stepper(st, opp, M) ==
  CASE st.alg = "hedge" -> stepHedge(st, opp, M)
    [] st.alg = "regret" -> stepRegret(st, opp, M)
    [] OTHER -> stepFP(st, opp, M)

\* ------------------------------------------------------------- eval runner
\* GAMES[game].zeroSum
zeroSum(g) == g \in {"rps", "mp"}

\* a / b for b # 0, rounded towards minus infinity
Div(a, b) == IF b < 0 THEN (-a) \div (-b) ELSE a \div b

RECURSIVE SqrtScan(_, _, _)
\* the largest r in lo..hi with r * r <= n
SqrtScan(n, lo, hi) ==
  IF lo >= hi THEN lo
  ELSE LET mid == (lo + hi + 1) \div 2
       IN IF mid * mid <= n THEN SqrtScan(n, mid, hi) ELSE SqrtScan(n, lo, mid - 1)

\* Math.sqrt of x / SCALE^2, in fixed point
Sqrt2(x) == SqrtScan(x, 0, IF x < 46340 THEN x ELSE 46340)

\* the per-episode variables of runEval and generateEvalTrace after "reset per
\* episode": strategies, steppers, the seed's generator, the counters
episodeStart(params, rng) ==
  LET spec == GAMES(params.game)
  IN [pA |-> [i \in 1..spec.nA |-> SCALE \div spec.nA],
      pB |-> [i \in 1..spec.nB |-> SCALE \div spec.nB],
      stepA |-> makeStepper(params.algA, spec.nA, params.lr),
      stepB |-> makeStepper(params.algB, spec.nB, params.lr),
      rng |-> rng,
      coopCount |-> 0,
      rewardSumA |-> 0,
      steps |-> <<>>]

\* one iteration of the step loop: update strategies given the opponent's
\* current mix, sample actions, accumulate
playStep(params, e) ==
  With(stepper(e.stepA, e.pB, GAMES(params.game).A), LAMBDA stepA :
  With(stepper(e.stepB, stepA.p, GAMES(params.game).B), LAMBDA stepB :
  With(mulberry32(e.rng), LAMBDA d1 :
  With(mulberry32(d1.t), LAMBDA d2 :
  With(sampleIndex(stepA.p, ToUnit(d1.word)), LAMBDA a :
  With(sampleIndex(stepB.p, ToUnit(d2.word)), LAMBDA b :
    LET spec == GAMES(params.game)
        rA == spec.A[a + 1][b + 1]
        rB == spec.B[a + 1][b + 1]
    IN [e EXCEPT !.pA = stepA.p, !.pB = stepB.p,
                 !.stepA = stepA, !.stepB = stepB,
                 !.rng = d2.t,
                 !.rewardSumA = @ + rA,
                 !.coopCount = IF params.game = "pd" /\ a = 0 THEN @ + 1 ELSE @,
                 !.steps = Append(@, [actionA |-> a, actionB |-> b,
                                      rewardA |-> rA, rewardB |-> rB,
                                      pA |-> stepA.p, pB |-> stepB.p])]))))))

RECURSIVE evalLoop(_, _, _)
\* runEval: for (let t = 0; t < params.stepsPerEp; t++), from t on
evalLoop(params, e, t) ==
  IF t * SCALE < params.stepsPerEp
  THEN With(playStep(params, e), LAMBDA next : evalLoop(params, next, t + 1))
  ELSE e

RECURSIVE traceLoop(_, _, _)
\* generateEvalTrace: for (let t = 1; t <= params.stepsPerEp; t++), from t on
traceLoop(params, e, t) ==
  IF t * SCALE <= params.stepsPerEp
  THEN With(playStep(params, e), LAMBDA next : traceLoop(params, next, t + 1))
  ELSE e

\* a metric row written under the id of the first run
metricRowFirstRun(params, seed, ep, e) ==
  LET spec == GAMES(params.game)
      avgRewardA == Div(e.rewardSumA * SCALE * SCALE, params.stepsPerEp)
      d2 == SumSeq([i \in 1..spec.nA |-> (e.pA[i] - (SCALE \div spec.nA)) * (e.pA[i] - (SCALE \div spec.nA))])
  IN [run_id |-> 1, seed |-> seed, ep |-> ep,
      winA |-> IF zeroSum(params.game) THEN <<(avgRewardA + SCALE) \div 2>> ELSE Null,
      avgRewardA |-> avgRewardA,
      coopRate |-> IF zeroSum(params.game) THEN Null
                   ELSE <<Div(e.coopCount * SCALE * SCALE, params.stepsPerEp)>>,
      l2Dist |-> IF zeroSum(params.game)
                 THEN (IF HasNaN(e.pA) THEN <<NaN>> ELSE <<Sqrt2(d2)>>) ELSE Null]

\* a metric row with coopRate filled in for every game
metricRowAlwaysCoop(params, seed, ep, e) ==
  LET spec == GAMES(params.game)
      avgRewardA == Div(e.rewardSumA * SCALE * SCALE, params.stepsPerEp)
  IN [run_id |-> params.run_id, seed |-> seed, ep |-> ep,
      winA |-> IF zeroSum(params.game) THEN <<(avgRewardA + SCALE) \div 2>> ELSE Null,
      avgRewardA |-> avgRewardA,
      coopRate |-> <<Div(e.coopCount * SCALE * SCALE, params.stepsPerEp)>>,
      l2Dist |-> IF zeroSum(params.game) THEN <<0>> ELSE Null]

\* the metric row runEval computes at the end of an episode
metricRow(params, seed, ep, e) ==
  LET spec == GAMES(params.game)
      avgRewardA == Div(e.rewardSumA * SCALE * SCALE, params.stepsPerEp)
      uniformA == SCALE \div spec.nA
      d2 == SumSeq([i \in 1..spec.nA |-> (e.pA[i] - uniformA) * (e.pA[i] - uniformA)])
  IN [run_id |-> params.run_id, seed |-> seed, ep |-> ep,
      winA |-> IF zeroSum(params.game) THEN <<(avgRewardA + SCALE) \div 2>> ELSE Null,
      avgRewardA |-> avgRewardA,
      coopRate |-> IF zeroSum(params.game) THEN Null
                   ELSE <<Div(e.coopCount * SCALE * SCALE, params.stepsPerEp)>>,
      l2Dist |-> IF zeroSum(params.game)
                 THEN (IF HasNaN(e.pA) THEN <<NaN>> ELSE <<Sqrt2(d2)>>) ELSE Null]

\* meanStd of runEval: population mean and standard deviation, null when empty
meanStd(xs) ==
  IF xs = <<>> THEN [mean |-> Null, std |-> Null]
  ELSE IF HasNaN(xs) THEN [mean |-> <<NaN>>, std |-> <<NaN>>]
  ELSE LET m == Div(SumSeq(xs), Len(xs))
           v == SumSeq([i \in 1..Len(xs) |-> (xs[i] - m) * (xs[i] - m)]) \div Len(xs)
       IN [mean |-> <<m>>, std |-> <<Sqrt2(v)>>]

RECURSIVE nonNull(_)
\* metrics.map(...).filter((x) => x != null)
nonNull(xs) ==
  IF xs = <<>> THEN <<>>
  ELSE (IF Head(xs) = Null THEN <<>> ELSE <<Head(xs)[1]>>) \o nonNull(Tail(xs))

\* the summary row runEval computes from its metrics array
summaryRow(run_id, metrics) ==
  LET msWin == meanStd(nonNull([i \in 1..Len(metrics) |-> metrics[i].winA]))
      msAvg == meanStd([i \in 1..Len(metrics) |-> metrics[i].avgRewardA])
      msCoop == meanStd(nonNull([i \in 1..Len(metrics) |-> metrics[i].coopRate]))
      msL2 == meanStd(nonNull([i \in 1..Len(metrics) |-> metrics[i].l2Dist]))
  IN [run_id |-> run_id,
      winA_mean |-> msWin.mean, winA_std |-> msWin.std,
      avgRewardA_mean |-> msAvg.mean, avgRewardA_std |-> msAvg.std,
      coopRate_mean |-> msCoop.mean, coopRate_std |-> msCoop.std,
      l2Dist_mean |-> msL2.mean, l2Dist_std |-> msL2.std]

\* the steps one episode adds to the trace, numbered from 1
traceSteps(seed, ep, e) ==
  [t \in 1..Len(e.steps) |->
     [seed |-> seed, ep |-> ep, t |-> t,
      actionA |-> e.steps[t].actionA, actionB |-> e.steps[t].actionB,
      rewardA |-> e.steps[t].rewardA, rewardB |-> e.steps[t].rewardB,
      pA |-> e.steps[t].pA, pB |-> e.steps[t].pB]]

RECURSIVE traceEpisodes(_, _, _, _)
\* generateEvalTrace: for (let ep = 1; ep <= params.episodes; ep++), from ep
\* on, with the seed's generator at rng
traceEpisodes(params, seed, ep, rng) ==
  IF ep <= params.episodes
  THEN With(traceLoop(params, episodeStart(params, rng), 1), LAMBDA e :
         traceSteps(seed, ep, e) \o traceEpisodes(params, seed, ep + 1, e.rng))
  ELSE <<>>

RECURSIVE traceSeeds(_, _)
\* generateEvalTrace: for (const seed of params.seeds), from position si on
traceSeeds(params, si) ==
  IF si <= Len(params.seeds)
  THEN traceEpisodes(params, params.seeds[si], 1, ToUint32(params.seeds[si]))
         \o traceSeeds(params, si + 1)
  ELSE <<>>

\* generateEvalTrace(params).steps, for a game of GAMES
generateEvalTrace(params) == traceSeeds(params, 1)

\* -------------------------------------------------------------- eval routes
\* request bodies of POST /api/eval/start: seeds is <<list>> when it is an
\* array and Null when it is not; episodes counts, stepsPerEp is in fixed
\* point; 0 and "" are the falsy values
EvalBodies ==
  { [game |-> "pd", algA |-> "hedge", algB |-> "hedge", seeds |-> << <<1, 2>> >>,
     episodes |-> 2, stepsPerEp |-> 2 * SCALE, lr |-> Null],
    [game |-> "rps", algA |-> "regret", algB |-> "fp", seeds |-> << <<7>> >>,
     episodes |-> 2, stepsPerEp |-> 3 * SCALE, lr |-> <<250>>],
    [game |-> "mp", algA |-> "fp", algB |-> "regret", seeds |-> << <<1, 1>> >>,
     episodes |-> 1, stepsPerEp |-> 2500, lr |-> Null],
    [game |-> "chess", algA |-> "hedge", algB |-> "hedge", seeds |-> << <<1>> >>,
     episodes |-> 1, stepsPerEp |-> SCALE, lr |-> Null],
    [game |-> "pd", algA |-> "regret", algB |-> "hedge", seeds |-> << <<3>> >>,
     episodes |-> -1, stepsPerEp |-> 2 * SCALE, lr |-> Null],
    [game |-> "rps", algA |-> "hedge", algB |-> "regret", seeds |-> << <<3>> >>,
     episodes |-> 1, stepsPerEp |-> -SCALE, lr |-> Null],
    [game |-> "mp", algA |-> "hedge", algB |-> "hedge", seeds |-> << <<1>> >>,
     episodes |-> 0, stepsPerEp |-> SCALE, lr |-> Null],
    [game |-> "pd", algA |-> "hedge", algB |-> "hedge", seeds |-> Null,
     episodes |-> 1, stepsPerEp |-> SCALE, lr |-> Null] }

\* the test of line 14 of the start route
evalParamsInvalid(body) ==
  \/ body.game = ""
  \/ body.algA = ""
  \/ body.algB = ""
  \/ body.seeds = Null
  \/ body.episodes = 0
  \/ body.stepsPerEp = 0

\* the row createEvalRun inserts, which is also what runEval is called with
evalRunRow(body) ==
  [game |-> body.game, algA |-> body.algA, algB |-> body.algB,
   seeds |-> body.seeds[1], episodes |-> body.episodes,
   stepsPerEp |-> body.stepsPerEp, lr |-> body.lr]

\* the parameters of runEval and of generateEvalTrace for a stored run
evalParams(run_id, row) ==
  [run_id |-> run_id, game |-> row.game, algA |-> row.algA, algB |-> row.algB,
   seeds |-> row.seeds, episodes |-> row.episodes, stepsPerEp |-> row.stepsPerEp,
   lr |-> row.lr]

EvalRunIds == 1..Len(evalRuns)
EvalCallIds == 1..Len(evalCalls)

\* a runEval that keeps one generator across seeds
seedRngKept(seeds, si, rng) == rng

\* the generator runEval makes when its outer loop reaches seeds[si]
seedRng(seeds, si, rng) == IF si <= Len(seeds) THEN ToUint32(seeds[si]) ELSE rng

\* POST /api/eval/start up to the await of createEvalRun
EvalStartRoute(body) ==
  /\ IF evalParamsInvalid(body)
     THEN /\ evalResp' = [op |-> "start", status |-> 400, body |-> <<>>]
          /\ UNCHANGED <<evalRuns, evalMetrics, evalSummaries, evalCalls>>
     ELSE /\ Len(evalRuns) < MaxEvalRuns
          /\ LET run_id == Len(evalRuns) + 1
                 row == evalRunRow(body)
             IN /\ evalRuns' = Append(evalRuns, row)
                /\ evalCalls' = Append(evalCalls,
                     [params |-> evalParams(run_id, row), pc |-> "created",
                      si |-> 1, ep |-> 1, rng |-> seedRng(row.seeds, 1, <<0, 0>>),
                      metrics |-> <<>>])
          /\ evalMetrics' = Append(evalMetrics, <<>>)
          /\ evalSummaries' = Append(evalSummaries, <<>>)
          /\ evalResp' = NoEvalResp
  /\ UNCHANGED vars

\* a runEval that leaves its loops after the first seed
hasEpisodeFirstSeedOnly(c) == c.params.episodes >= 1 /\ c.si <= 1

\* runEval's loops have a (seed, ep) left to compute
hasEpisode(c) == c.params.episodes >= 1 /\ c.si <= Len(c.params.seeds)

\* runEval from one await to the next insertEvalMetric: one episode
RunEvalEpisode(c) ==
  /\ c \in EvalCallIds
  /\ evalCalls[c].pc \in {"created", "inserted"}
  /\ evalCalls[c].params.game \in GameIds
  /\ hasEpisode(evalCalls[c])
  /\ LET call == evalCalls[c]
         params == call.params
         seed == params.seeds[call.si]
         more == call.ep + 1 <= params.episodes
     IN \E e \in {evalLoop(params, episodeStart(params, call.rng), 0)} :
        \E row \in {metricRow(params, seed, call.ep, e)} :
          /\ evalMetrics' = [evalMetrics EXCEPT ![params.run_id] = Append(@, row)]
          /\ evalCalls' = [evalCalls EXCEPT ![c] =
               [call EXCEPT !.pc = "inserted",
                            !.metrics = Append(@, row),
                            !.ep = IF more THEN call.ep + 1 ELSE 1,
                            !.si = IF more THEN call.si ELSE call.si + 1,
                            !.rng = IF more THEN e.rng
                                    ELSE seedRng(params.seeds, call.si + 1, e.rng)]]
  /\ evalResp' = NoEvalResp
  /\ UNCHANGED <<evalRuns, evalSummaries>>
  /\ UNCHANGED vars

\* runEval from the last await to insertEvalSummary
RunEvalSummary(c) ==
  /\ c \in EvalCallIds
  /\ evalCalls[c].pc \in {"created", "inserted"}
  /\ evalCalls[c].params.game \in GameIds
  /\ ~hasEpisode(evalCalls[c])
  /\ LET call == evalCalls[c]
     IN /\ evalSummaries' = [evalSummaries EXCEPT ![call.params.run_id] =
             Append(@, summaryRow(call.params.run_id, call.metrics))]
        /\ evalCalls' = [evalCalls EXCEPT ![c].pc = "summarised"]
  /\ evalResp' = NoEvalResp
  /\ UNCHANGED <<evalRuns, evalMetrics>>
  /\ UNCHANGED vars

\* runEval with a game GAMES does not hold: spec.A throws, the route answers 500
RunEvalThrow(c) ==
  /\ c \in EvalCallIds
  /\ evalCalls[c].pc = "created"
  /\ evalCalls[c].params.game \notin GameIds
  /\ evalCalls' = [evalCalls EXCEPT ![c].pc = "failed"]
  /\ evalResp' = [op |-> "start", status |-> 500, body |-> <<>>]
  /\ UNCHANGED <<evalRuns, evalMetrics, evalSummaries>>
  /\ UNCHANGED vars

\* runEval has returned: res.json({ run_id })
EvalRespond(c) ==
  /\ c \in EvalCallIds
  /\ evalCalls[c].pc = "summarised"
  /\ evalCalls' = [evalCalls EXCEPT ![c].pc = "done"]
  /\ evalResp' = [op |-> "start", status |-> 200, body |-> <<evalCalls[c].params.run_id>>]
  /\ UNCHANGED <<evalRuns, evalMetrics, evalSummaries>>
  /\ UNCHANGED vars

\* GET /api/eval/trace/:run_id
EvalTraceRoute(run_id) ==
  /\ evalResp' =
       IF run_id \notin EvalRunIds
       THEN [op |-> "trace", status |-> 404, body |-> <<>>]
       ELSE IF evalRuns[run_id].game \notin GameIds
       THEN [op |-> "trace", status |-> 500, body |-> <<>>]
       ELSE [op |-> "trace", status |-> 200,
             body |-> generateEvalTrace(evalParams(run_id, evalRuns[run_id]))]
  /\ UNCHANGED <<evalRuns, evalMetrics, evalSummaries, evalCalls>>
  /\ UNCHANGED vars

EvalNext ==
  \/ (\E body \in EvalBodies : EvalStartRoute(body)) /\ UNCHANGED <<trainVars, probeVars>>
  \/ (\E c \in EvalCallIds : RunEvalEpisode(c)) /\ UNCHANGED <<trainVars, probeVars>>
  \/ (\E c \in EvalCallIds : RunEvalSummary(c)) /\ UNCHANGED <<trainVars, probeVars>>
  \/ (\E c \in EvalCallIds : RunEvalThrow(c)) /\ UNCHANGED <<trainVars, probeVars>>
  \/ (\E c \in EvalCallIds : EvalRespond(c)) /\ UNCHANGED <<trainVars, probeVars>>

EvalSpec == Init /\ [][EvalNext]_allVars

\* the evaluator with its trace route
EvalTraceNext ==
  \/ EvalNext
  \/ (\E id \in EvalRunIds \cup {UnknownId} : EvalTraceRoute(id)) /\ UNCHANGED <<trainVars, probeVars>>

EvalTraceSpec == Init /\ [][EvalTraceNext]_allVars

\* ------------------------------------------------------------------ trainer
\* the largest value of -Math.log(u) for a draw u >= 1 / SCALE
MaxNegLn == 7 * SCALE

RECURSIVE NegLnScan(_, _, _)
\* the least y in lo..hi with exp(-y) <= u
NegLnScan(u, lo, hi) ==
  IF lo >= hi THEN lo
  ELSE LET mid == (lo + hi) \div 2
       IN IF ExpNeg(mid) <= u THEN NegLnScan(u, lo, mid) ELSE NegLnScan(u, mid + 1, hi)

\* -Math.log(u) for 0 < u <= 1
NegLn(u) == NegLnScan(u, 0, MaxNegLn)

\* Math.PI / 2, Math.PI and 2.0 * Math.PI in fixed point
HalfPi == 1571
Pi == 3142
TwoPi == 6283

\* Math.cos(x) for 0 <= x <= Math.PI / 2
CosSeries(x) ==
  LET x2 == (x * x) \div SCALE
      x4 == (x2 * x2) \div SCALE
      x6 == (x4 * x2) \div SCALE
  IN SCALE - (x2 \div 2) + (x4 \div 24) - (x6 \div 720)

\* Math.cos(x) for 0 <= x <= 2 * Math.PI
Cos(x) ==
  IF x <= HalfPi THEN CosSeries(x)
  ELSE IF x <= Pi THEN -CosSeries(Pi - x)
  ELSE IF x <= Pi + HalfPi THEN -CosSeries(x - Pi)
  ELSE CosSeries(TwoPi - x)

\* Math.tanh(z)
Tanh(z) ==
  LET e == ExpNeg(2 * Abs(z))
      th == ((SCALE - e) * SCALE) \div (SCALE + e)
  IN IF z < 0 THEN -th ELSE th

\* initPolicy.randn (Box-Muller) with the generator at rng: the generator
\* after the two draws and the value
randn(rng) ==
  With(mulberry32(rng), LAMBDA d1 :
    With(mulberry32(d1.t), LAMBDA d2 :
      LET u == SCALE - ToUnit(d1.word)
          v == ToUnit(d2.word)
          radius == SqrtScan(2 * NegLn(u) * SCALE, 0, 4 * SCALE)
      IN [rng |-> d2.t, value |-> (radius * Cos((TwoPi * v) \div SCALE)) \div SCALE]))

RECURSIVE randnSeq(_, _, _)
\* n values of randn drawn one after the other, appended to vals
randnSeq(n, rng, vals) ==
  IF n = 0 THEN [rng |-> rng, vals |-> vals]
  ELSE With(randn(rng), LAMBDA d : randnSeq(n - 1, d.rng, Append(vals, d.value)))

\* 1 / Math.sqrt(n)
invSqrt(n) == SqrtScan((SCALE * SCALE) \div n, 0, SCALE)

\* initPolicy: W1 is hidden x input, W2 is acts x hidden, drawn row by row
initPolicy(input, hidden, acts, rng) ==
  With(randnSeq(hidden * input, rng, <<>>), LAMBDA d1 :
    With(randnSeq(acts * hidden, d1.rng, <<>>), LAMBDA d2 :
      [rng |-> d2.rng,
       pol |-> [W1 |-> Vec([i \in 1..hidden |-> Vec([j \in 1..input |->
                         (d1.vals[((i - 1) * input) + j] * invSqrt(input)) \div SCALE])]),
                b1 |-> Vec([i \in 1..hidden |-> 0]),
                W2 |-> Vec([i \in 1..acts |-> Vec([j \in 1..hidden |->
                         (d2.vals[((i - 1) * hidden) + j] * invSqrt(hidden)) \div SCALE])]),
                b2 |-> Vec([i \in 1..acts |-> 0])]]))

\* trainer softmax(logits)
softmaxLogits(logits) ==
  LET m == MaxSeq(logits)
  IN With(Vec([i \in 1..Len(logits) |-> ExpNeg(m - logits[i])]), LAMBDA exps :
       LET s == SumSeq(exps)
       IN Vec([i \in 1..Len(exps) |-> (exps[i] * SCALE) \div (IF s = 0 THEN SCALE ELSE s)]))

\* oneHot(n, idx), idx 0-based
oneHot(n, idx) == Vec([i \in 1..n |-> IF i - 1 = idx THEN SCALE ELSE 0])

\* forward(pol, x)
forward(pol, x) ==
  With(Vec([i \in 1..Len(pol.W1) |->
         Tanh(pol.b1[i] + SumSeq([j \in 1..Len(x) |-> (pol.W1[i][j] * x[j]) \div SCALE]))]),
       LAMBDA hidden :
    With(Vec([i \in 1..Len(pol.W2) |->
           pol.b2[i] + SumSeq([j \in 1..Len(hidden) |-> (pol.W2[i][j] * hidden[j]) \div SCALE])]),
         LAMBDA logits :
      [hidden |-> hidden, logits |-> logits, probs |-> softmaxLogits(logits)]))

\* trainSelfPlay.update(pol, steps, baseline): the REINFORCE step
update(pol, steps, baseline, lr) ==
  LET n == Len(steps)
      nActs == Len(pol.b2)
      nHid == Len(pol.b1)
      nIn == Len(pol.W1[1])
      adv(s) == (steps[s].reward * SCALE) - baseline
      scaleBy(g) == Div(g * lr, n * SCALE)
  IN With(Vec([s \in 1..n |-> Vec([i \in 1..nActs |->
            Div(adv(s) * (oneHot(nActs, steps[s].action)[i] - steps[s].probs[i]), SCALE)])]),
          LAMBDA advDlogits :
       With(Vec([s \in 1..n |-> Vec([j \in 1..nHid |->
              Div(SumSeq([i \in 1..nActs |-> Div(advDlogits[s][i] * pol.W2[i][j], SCALE)])
                    * (SCALE - ((steps[s].hidden[j] * steps[s].hidden[j]) \div SCALE)), SCALE)])]),
            LAMBDA dhidden :
         [W2 |-> Vec([i \in 1..nActs |-> Vec([j \in 1..nHid |->
                   pol.W2[i][j] + scaleBy(SumSeq([s \in 1..n |->
                     Div(advDlogits[s][i] * steps[s].hidden[j], SCALE)]))])]),
          b2 |-> Vec([i \in 1..nActs |->
                   pol.b2[i] + scaleBy(SumSeq([s \in 1..n |-> advDlogits[s][i]]))]),
          W1 |-> Vec([j \in 1..nHid |-> Vec([k \in 1..nIn |->
                   pol.W1[j][k] + scaleBy(SumSeq([s \in 1..n |->
                     Div(dhidden[s][j] * steps[s].x[k], SCALE)]))])]),
          b1 |-> Vec([j \in 1..nHid |->
                   pol.b1[j] + scaleBy(SumSeq([s \in 1..n |-> dhidden[s][j]]))])]))

\* Number(x) || d of the routes: the default for a missing or zero value
orDefault(x, d) == IF x = Null \/ x[1] = 0 THEN d ELSE x[1]

DefaultEpisodes == 50
DefaultStepsPerEp == 200
DefaultWorkers == 4
DefaultTrainLr == 50
DefaultHidden == 16
MinHidden == 8
MinStepsPerEp == 10
MinWorkers == 1
MaxWorkers == 16

\* the TrainConfig the routes build from a request body; workers (fixed
\* point) is used by the distributed route only
trainConfig(body) ==
  [game |-> body.game,
   episodes |-> orDefault(body.episodes, DefaultEpisodes),
   stepsPerEp |-> orDefault(body.stepsPerEp, DefaultStepsPerEp * SCALE),
   lr |-> body.lr,
   hidden |-> body.hidden,
   seed |-> body.seed,
   workers |-> Opt(body.workers, DefaultWorkers * SCALE)]

\* the values trainSelfPlay derives from its configuration
trainSettings(cfg) ==
  LET spec == GAMES(cfg.game)
      hidden == Opt(cfg.hidden, DefaultHidden)
  IN [game |-> cfg.game,
      seed |-> Opt(cfg.seed, DefaultSeed),
      inputDim |-> (IF spec.nA > spec.nB THEN spec.nA ELSE spec.nB) + 1,
      hidden |-> IF hidden > MinHidden THEN hidden ELSE MinHidden,
      lr |-> Opt(cfg.lr, DefaultTrainLr),
      stepsPerEp |-> IF cfg.stepsPerEp > MinStepsPerEp * SCALE
                     THEN cfg.stepsPerEp ELSE MinStepsPerEp * SCALE,
      episodes |-> IF cfg.episodes > 1 THEN cfg.episodes ELSE 1]

\* a call of trainSelfPlay not yet begun
pendingRun(cfg) ==
  [cfg |-> cfg, seed |-> Opt(cfg.seed, DefaultSeed), pc |-> "pending", ep |-> 1,
   rng |-> <<0, 0>>, polA |-> Null, polB |-> Null, logs |-> <<>>]

\* trainSelfPlay up to its episode loop: generator and the two policies
trainBegin(run) ==
  LET s == trainSettings(run.cfg)
      spec == GAMES(s.game)
  IN With(initPolicy(s.inputDim, s.hidden, spec.nA, ToUint32(s.seed)), LAMBDA a :
       With(initPolicy(s.inputDim, s.hidden, spec.nB, a.rng), LAMBDA b :
         [run EXCEPT !.pc = "running", !.rng = b.rng,
                     !.polA = <<a.pol>>, !.polB = <<b.pol>>]))

\* the variables of one episode before its first step
trainEpisodeStart(run) ==
  [lastA |-> 0, lastB |-> 0, stepsA |-> <<>>, stepsB |-> <<>>,
   rewardSumA |-> 0, rewardSumB |-> 0, rng |-> run.rng]

\* one step of the episode: observations, forward passes, the two draws
trainStep(s, run, e) ==
  LET spec == GAMES(s.game)
      xA == <<SCALE>> \o oneHot(s.inputDim - 1, e.lastB)
      xB == <<SCALE>> \o oneHot(s.inputDim - 1, e.lastA)
  IN With(forward(run.polA[1], xA), LAMBDA fa :
       With(forward(run.polB[1], xB), LAMBDA fb :
         With(mulberry32(e.rng), LAMBDA d1 :
           With(mulberry32(d1.t), LAMBDA d2 :
             LET a == sampleIndex(fa.probs, ToUnit(d1.word))
                 b == sampleIndex(fb.probs, ToUnit(d2.word))
                 rA == spec.A[a + 1][b + 1]
                 rB == spec.B[a + 1][b + 1]
             IN [lastA |-> a, lastB |-> b,
                 stepsA |-> Append(e.stepsA, [x |-> xA, hidden |-> fa.hidden,
                              probs |-> fa.probs, action |-> a, reward |-> rA]),
                 stepsB |-> Append(e.stepsB, [x |-> xB, hidden |-> fb.hidden,
                              probs |-> fb.probs, action |-> b, reward |-> rB]),
                 rewardSumA |-> e.rewardSumA + rA,
                 rewardSumB |-> e.rewardSumB + rB,
                 rng |-> d2.t]))))

RECURSIVE trainSteps(_, _, _, _)
\* for (let t = 0; t < stepsPerEp; t++)
trainSteps(s, run, e, t) ==
  IF t * SCALE < s.stepsPerEp
  THEN With(trainStep(s, run, e), LAMBDA e2 : trainSteps(s, run, e2, t + 1))
  ELSE e

\* a log entry with the win rate filled in for every game
trainLogWinForAll(s, ep, e) ==
  LET avgRewardA == Div(e.rewardSumA * SCALE * SCALE, s.stepsPerEp)
  IN [ep |-> ep,
      avgRewardA |-> avgRewardA,
      avgRewardB |-> Div(e.rewardSumB * SCALE * SCALE, s.stepsPerEp),
      winA |-> <<(avgRewardA + SCALE) \div 2>>]

\* the log entry of an episode
trainLog(s, ep, e) ==
  LET avgRewardA == Div(e.rewardSumA * SCALE * SCALE, s.stepsPerEp)
  IN [ep |-> ep,
      avgRewardA |-> avgRewardA,
      avgRewardB |-> Div(e.rewardSumB * SCALE * SCALE, s.stepsPerEp),
      winA |-> IF zeroSum(s.game) THEN <<(avgRewardA + SCALE) \div 2>> ELSE Null]

\* one pass of the episode loop of trainSelfPlay: play, update both policies,
\* push the log entry
trainEpisode(run) ==
  LET s == trainSettings(run.cfg)
  IN With(trainSteps(s, run, trainEpisodeStart(run), 0), LAMBDA e :
       [run EXCEPT
          !.polA = <<update(run.polA[1], e.stepsA,
                            Div(e.rewardSumA * SCALE * SCALE, s.stepsPerEp), s.lr)>>,
          !.polB = <<update(run.polB[1], e.stepsB,
                            Div(e.rewardSumB * SCALE * SCALE, s.stepsPerEp), s.lr)>>,
          !.rng = e.rng,
          !.ep = run.ep + 1,
          !.logs = Append(run.logs, trainLog(s, run.ep, e))])

\* the episode loop has an episode left
trainHasEpisode(run) == run.ep <= trainSettings(run.cfg).episodes

RECURSIVE trainLoop(_)
\* the episode loop of trainSelfPlay run to its end
trainLoop(run) ==
  IF trainHasEpisode(run) THEN With(trainEpisode(run), LAMBDA r : trainLoop(r))
  ELSE [run EXCEPT !.pc = "returned"]

\* trainSelfPlay(cfg), run in one go
trainSelfPlay(cfg) == With(trainBegin(pendingRun(cfg)), LAMBDA r : trainLoop(r))

\* a distributed trainer that gives every worker the base seed
workerSeedShared(baseSeed, i) == baseSeed

\* const seed = baseSeed + i, for the 0-based worker index i
workerSeed(baseSeed, i) == baseSeed + i

\* Math.max(1, Math.min(16, cfg.workers))
clampWorkers(w) ==
  IF w > MaxWorkers * SCALE THEN MaxWorkers * SCALE
  ELSE IF w < MinWorkers * SCALE THEN MinWorkers * SCALE ELSE w

\* the length of Array.from({ length: workers })
arrayLength(w) == w \div SCALE

\* an aggregation that reports winA 0 when no worker reported one
aggregateZeroWin(runs, workers, idx) ==
  LET at(r) == IF idx + 1 <= Len(runs[r].logs) THEN <<runs[r].logs[idx + 1]>> ELSE Null
      sumA == SumSeq([r \in 1..Len(runs) |-> IF at(r) = Null THEN 0 ELSE at(r)[1].avgRewardA])
      sumB == SumSeq([r \in 1..Len(runs) |-> IF at(r) = Null THEN 0 ELSE at(r)[1].avgRewardB])
      wins == {r \in 1..Len(runs) : at(r) # Null /\ at(r)[1].winA # Null}
      sumWin == SumSeq([r \in 1..Len(runs) |-> IF r \in wins THEN at(r)[1].winA[1] ELSE 0])
      countWin == Cardinality(wins)
  IN [ep |-> idx + 1,
      avgRewardA |-> Div(sumA * SCALE, workers),
      avgRewardB |-> Div(sumB * SCALE, workers),
      winA |-> <<sumWin \div (IF countWin # 0 THEN countWin ELSE 1)>>]

\* the aggregated log entry of episode index idx (0-based) over the runs
aggregate(runs, workers, idx) ==
  LET at(r) == IF idx + 1 <= Len(runs[r].logs) THEN <<runs[r].logs[idx + 1]>> ELSE Null
      sumA == SumSeq([r \in 1..Len(runs) |-> IF at(r) = Null THEN 0 ELSE at(r)[1].avgRewardA])
      sumB == SumSeq([r \in 1..Len(runs) |-> IF at(r) = Null THEN 0 ELSE at(r)[1].avgRewardB])
      wins == {r \in 1..Len(runs) : at(r) # Null /\ at(r)[1].winA # Null}
      sumWin == SumSeq([r \in 1..Len(runs) |-> IF r \in wins THEN at(r)[1].winA[1] ELSE 0])
      countWin == Cardinality(wins)
  IN [ep |-> idx + 1,
      avgRewardA |-> Div(sumA * SCALE, workers),
      avgRewardB |-> Div(sumB * SCALE, workers),
      winA |-> IF countWin # 0 THEN <<sumWin \div countWin>> ELSE Null]

\* the result of trainSelfPlayDistributed once its runs have returned
distributedResult(cfg, runs) ==
  LET workers == clampWorkers(cfg.workers)
      episodes == IF runs # <<>> /\ Len(runs[1].logs) # 0
                  THEN Len(runs[1].logs) ELSE cfg.episodes
  IN [distributed |-> TRUE,
      workers |-> workers,
      base_seed |-> Opt(cfg.seed, DefaultSeed),
      workerRuns |-> [r \in 1..Len(runs) |-> [seed |-> runs[r].seed, logs |-> runs[r].logs]],
      aggregatedLogs |-> [i \in 1..episodes |-> aggregate(runs, workers, i - 1)],
      config |-> cfg]

\* the result of trainSelfPlay once it has returned
trainResult(run) ==
  [config |-> trainSettings(run.cfg), logs |-> run.logs,
   policyA |-> run.polA[1], policyB |-> run.polB[1]]

\* --------------------------------------------------------------- rl routes
\* request bodies of POST /api/rl/train
TrainBodies ==
  { [game |-> "rps", episodes |-> <<2>>, stepsPerEp |-> <<10 * SCALE>>, lr |-> Null,
     hidden |-> <<8>>, seed |-> <<1234>>, workers |-> Null],
    [game |-> "pd", episodes |-> <<-5>>, stepsPerEp |-> <<-SCALE>>, lr |-> <<100>>,
     hidden |-> <<-1>>, seed |-> Null, workers |-> Null],
    [game |-> "chess", episodes |-> <<1>>, stepsPerEp |-> <<10 * SCALE>>, lr |-> Null,
     hidden |-> <<8>>, seed |-> Null, workers |-> Null] }

\* request bodies of POST /api/rl/train/distributed
DistributedBodies ==
  { [game |-> "mp", episodes |-> <<2>>, stepsPerEp |-> <<10 * SCALE>>, lr |-> Null,
     hidden |-> <<8>>, seed |-> <<7>>, workers |-> <<2 * SCALE>>],
    [game |-> "pd", episodes |-> <<1>>, stepsPerEp |-> <<10 * SCALE>>, lr |-> Null,
     hidden |-> <<8>>, seed |-> Null, workers |-> <<2 * SCALE>>],
    [game |-> "rps", episodes |-> <<1>>, stepsPerEp |-> <<10 * SCALE>>, lr |-> Null,
     hidden |-> <<8>>, seed |-> <<1234>>, workers |-> <<2500>>],
    [game |-> "rps", episodes |-> <<2>>, stepsPerEp |-> <<10 * SCALE>>, lr |-> Null,
     hidden |-> <<8>>, seed |-> <<1234>>, workers |-> <<0>>],
    [game |-> "chess", episodes |-> <<1>>, stepsPerEp |-> <<10 * SCALE>>, lr |-> Null,
     hidden |-> <<8>>, seed |-> Null, workers |-> <<2 * SCALE>>] }

\* the positions of the runs of the call being handled
TrainRunIds == 1..Len(trainCall.runs)

\* POST /api/rl/train: 400 for an unknown game, otherwise trainSelfPlay is
\* called with the configuration read from the body
TrainRoute(body) ==
  /\ trainCall.kind = "none"
  /\ trainCount < MaxTrainCalls
  /\ trainCount' = trainCount + 1
  /\ IF body.game \notin GameIds
     THEN /\ trainResp' = [op |-> "train", status |-> 400, body |-> <<>>]
          /\ UNCHANGED trainCall
     ELSE /\ trainCall' = [kind |-> "train", cfg |-> trainConfig(body),
                           runs |-> <<pendingRun(trainConfig(body))>>]
          /\ trainResp' = NoTrainResp

\* POST /api/rl/train/distributed: 400 for an unknown game, otherwise
\* trainSelfPlayDistributed lays out one run per worker, seeds base, base + 1, ...
TrainDistributedRoute(body) ==
  /\ trainCall.kind = "none"
  /\ trainCount < MaxTrainCalls
  /\ trainCount' = trainCount + 1
  /\ IF body.game \notin GameIds
     THEN /\ trainResp' = [op |-> "distributed", status |-> 400, body |-> <<>>]
          /\ UNCHANGED trainCall
     ELSE LET cfg == trainConfig(body)
              baseSeed == Opt(cfg.seed, DefaultSeed)
              n == arrayLength(clampWorkers(cfg.workers))
          IN /\ trainCall' = [kind |-> "distributed", cfg |-> cfg,
                              runs |-> [i \in 1..n |->
                                pendingRun([cfg EXCEPT !.seed = <<workerSeed(baseSeed, i - 1)>>])]]
             /\ trainResp' = NoTrainResp

\* a run begins: trainSelfPlay up to its episode loop
TrainBegin(i) ==
  /\ trainCall.runs[i].pc = "pending"
  /\ \E r \in {trainBegin(trainCall.runs[i])} :
       trainCall' = [trainCall EXCEPT !.runs[i] = r]
  /\ UNCHANGED <<trainCount, trainResp>>

\* a run plays one episode and pushes its log entry
TrainEpisode(i) ==
  /\ trainCall.runs[i].pc = "running"
  /\ trainHasEpisode(trainCall.runs[i])
  /\ \E r \in {trainEpisode(trainCall.runs[i])} :
       trainCall' = [trainCall EXCEPT !.runs[i] = r]
  /\ UNCHANGED <<trainCount, trainResp>>

\* a run leaves its episode loop and returns
TrainReturn(i) ==
  /\ trainCall.runs[i].pc = "running"
  /\ ~trainHasEpisode(trainCall.runs[i])
  /\ trainCall' = [trainCall EXCEPT !.runs[i].pc = "returned"]
  /\ UNCHANGED <<trainCount, trainResp>>

\* every run of the call has returned
AllReturned == \A i \in TrainRunIds : trainCall.runs[i].pc = "returned"

\* POST /api/rl/train answers with the result of trainSelfPlay
TrainRespond ==
  /\ trainCall.kind = "train"
  /\ AllReturned
  /\ trainResp' = [op |-> "train", status |-> 200, body |-> trainResult(trainCall.runs[1])]
  /\ trainCall' = NoTrainCall
  /\ UNCHANGED trainCount

\* POST /api/rl/train/distributed aggregates the logs and answers
TrainDistributedRespond ==
  /\ trainCall.kind = "distributed"
  /\ AllReturned
  /\ trainResp' = [op |-> "distributed", status |-> 200,
                   body |-> distributedResult(trainCall.cfg, trainCall.runs)]
  /\ trainCall' = NoTrainCall
  /\ UNCHANGED trainCount

TrainNext ==
  \/ (\E body \in TrainBodies : TrainRoute(body)) /\ UNCHANGED <<vars, evalVars, probeVars>>
  \/ (\E body \in DistributedBodies : TrainDistributedRoute(body)) /\ UNCHANGED <<vars, evalVars, probeVars>>
  \/ (\E i \in TrainRunIds : TrainBegin(i)) /\ UNCHANGED <<vars, evalVars, probeVars>>
  \/ (\E i \in TrainRunIds : TrainEpisode(i)) /\ UNCHANGED <<vars, evalVars, probeVars>>
  \/ (\E i \in TrainRunIds : TrainReturn(i)) /\ UNCHANGED <<vars, evalVars, probeVars>>
  \/ TrainRespond /\ UNCHANGED <<vars, evalVars, probeVars>>
  \/ TrainDistributedRespond /\ UNCHANGED <<vars, evalVars, probeVars>>

TrainSpec == Init /\ [][TrainNext]_allVars

\* ------------------------------------------------------ functions under test
\* the strategies with probability 1 on one action, for the action counts of
\* the games
OneHots ==
  UNION {{[i \in 1..GAMES(g).nA |-> IF i - 1 = k THEN SCALE ELSE 0] :
            k \in 0..(GAMES(g).nA - 1)} : g \in GameIds}

\* the values rng() returns, to three decimals
Draws == 0..(SCALE - 1)

\* sampleIndex(p, rng) where rng() returns r
SampleIndexCall(p, r) ==
  /\ sampleCall = NoSampleCall
  /\ sampleCall' = [p |-> p, r |-> r, index |-> sampleIndex(p, r)]
  /\ UNCHANGED bench

SampleNext ==
  (\E p \in OneHots : \E r \in Draws : SampleIndexCall(p, r))
    /\ UNCHANGED <<vars, evalVars, trainVars>>

SampleSpec == Init /\ [][SampleNext]_allVars

\* algA and algB of the episode
BenchPairs == {<<"hedge", "hedge">>, <<"regret", "regret">>, <<"hedge", "regret">>}
BenchRates == {Null, <<400 * SCALE>>}
BenchSeeds == {DefaultSeed, 7}

benchParams(game, algs, lr, seed) ==
  [run_id |-> 1, game |-> game, algA |-> algs[1], algB |-> algs[2], seeds |-> <<seed>>,
   episodes |-> 1, stepsPerEp |-> MaxBenchSteps * SCALE, lr |-> lr]

\* createRunner of the arena for a Hedge run, and the first episode of runEval
\* for the same game, rate and seed
BenchSetUp(game, algs, lr, seed) ==
  /\ bench = NoBench
  /\ bench' =
       [game |-> game, algA |-> algs[1], algB |-> algs[2], n |-> 0,
        run |-> IF algs = <<"hedge", "hedge">>
                THEN <<createRunner([game |-> game, stepsPerTick |-> <<SCALE>>,
                                     seed |-> <<seed>>, lr |-> lr], 1)>>
                ELSE Null,
        e |-> <<episodeStart(benchParams(game, algs, lr, seed), ToUint32(seed))>>]
  /\ UNCHANGED sampleCall

\* one stepOnce of the runner and one iteration of the step loop of runEval;
\* of the episode's steps only the last is kept
BenchStep ==
  /\ bench # NoBench
  /\ bench.n < MaxBenchSteps
  /\ \E next \in {playStep(benchParams(bench.game, <<bench.algA, bench.algB>>, Null, 0),
                               bench.e[1])} :
       bench' = [bench EXCEPT
                   !.n = @ + 1,
                   !.run = IF @ = Null THEN Null ELSE <<stepOnce(@[1])>>,
                   !.e = <<[next EXCEPT !.steps = <<next.steps[Len(next.steps)]>>]>>]
  /\ UNCHANGED sampleCall

BenchNext ==
  \/ (\E game \in GameIds : \E algs \in BenchPairs : \E lr \in BenchRates :
        \E seed \in BenchSeeds : BenchSetUp(game, algs, lr, seed))
       /\ UNCHANGED <<vars, evalVars, trainVars>>
  \/ BenchStep /\ UNCHANGED <<vars, evalVars, trainVars>>

BenchSpec == Init /\ [][BenchNext]_allVars

\* runner.start() on the Runner of run r
RunnerStartCall(r) ==
  /\ ~crashed
  /\ r \in RunIds
  /\ nextHandle <= MaxHandles
  /\ LET st == runnerStart(runners[r], intervals[r], nextHandle)
     IN /\ runners' = [runners EXCEPT ![r] = st.run]
        /\ intervals' = [intervals EXCEPT ![r] = st.active]
        /\ nextHandle' = IF st.active = intervals[r] THEN nextHandle ELSE nextHandle + 1
  /\ emit' = NoEmit
  /\ resp' = NoResp
  /\ UNCHANGED <<map, sockets, ticks, payloads, crashed>>

\* runner.stop() on the Runner of run r
RunnerStopCall(r) ==
  /\ ~crashed
  /\ r \in RunIds
  /\ LET st == runnerStop(runners[r], intervals[r])
     IN /\ runners' = [runners EXCEPT ![r] = st.run]
        /\ intervals' = [intervals EXCEPT ![r] = st.active]
  /\ emit' = NoEmit
  /\ resp' = NoResp
  /\ UNCHANGED <<map, nextHandle, sockets, ticks, payloads, crashed>>

\* runners made by the start route, then started, stopped and ticked in any
\* order
RunnerNext ==
  \/ (\E body \in StartBodies : nextHandle <= MaxHandles /\ StartRoute(body))
       /\ UNCHANGED batchVars
  \/ (\E r \in RunIds : RunnerStartCall(r)) /\ UNCHANGED batchVars
  \/ (\E r \in RunIds : RunnerStopCall(r)) /\ UNCHANGED batchVars
  \/ (\E r \in RunIds : \E h \in intervals[r] : Tick(r, h)) /\ UNCHANGED batchVars

RunnerSpec == Init /\ [][RunnerNext]_allVars

\* ------------------------------------------------------------------ claims
Registered(id) == id \in Range(map)

\* the run was registered once and the registry has let go of it: stop(id)
\* is the one operation that removes an entry
Stopped(id) == id \in RunIds /\ ~Registered(id)

\* the step is an interval callback of run r
TickStep(r) == emit'.run = r

\* C1: stop(id) on a registered run answers true (200 from the route), after
\* which id is not in list() and get(id) is absent; a stop of a run already
\* stopped answers false (404), and a stopped id never comes back
C1_StopRemovesRun ==
  [][\A id \in RunIds :
       /\ (StopRoute(id) /\ Registered(id)) =>
            /\ resp'.status = 200
            /\ id \notin Range(list(map'))
            /\ storeGet(map', id) = NoRun
       /\ (StopRoute(id) /\ Stopped(id)) => resp'.status = 404
       /\ Stopped(id) => id \notin Range(list(map'))]_vars

\* a second stop of a stopped run has just been answered
C1_Witness ==
  /\ resp.op = "stop"
  /\ resp.status = 404
  /\ resp.id \in RunIds
  /\ resp.id \notin Range(map)

\* C2: stop(id) on an id the registry does not hold answers false (404 from
\* the route), throws nothing and leaves the registry and every run as they
\* were; a state query on such an id is answered 404 too
C2_AbsentIdNotFound ==
  [][\A id \in RunIds \cup {UnknownId} :
       /\ (StopRoute(id) /\ ~Registered(id)) =>
            /\ resp'.status = 404
            /\ ~crashed'
            /\ UNCHANGED <<runners, map, intervals, sockets, ticks, payloads>>
       /\ (StateRoute(id) /\ ~Registered(id)) =>
            /\ resp'.status = 404
            /\ resp'.body = NoBody
            /\ ~crashed']_vars

\* a stop of an id that was never registered has been answered 404 while the
\* registry holds a run that has ticked
C2_Witness ==
  /\ resp.op = "stop"
  /\ resp.id = UnknownId
  /\ resp.status = 404
  /\ \E r \in RunIds : Registered(r) /\ runners[r].iter > 0

\* C3: once a run has been stopped no step notifies its subscribers and its
\* iteration counter and joint-action counts stay as they are
C3_StoppedRunIsSilent ==
  [][\A r \in RunIds :
       Stopped(r) =>
         /\ ~TickStep(r)
         /\ runners'[r].iter = runners[r].iter
         /\ runners'[r].jointCounts = runners[r].jointCounts]_vars

\* a run that ticked with a subscriber attached has been stopped and the
\* subscriber is still connected
C3_Witness ==
  \E r \in RunIds :
    /\ Stopped(r)
    /\ runners[r].iter > 0
    /\ \E s \in SocketIds : sockets[s].connected /\ sockets[s].sub = r

\* C4: a stopped run has no timer, no live interval handle and no subscriber
C4_StopReleasesAll ==
  \A r \in RunIds :
    Stopped(r) =>
      /\ runners[r].timer = NoTimer
      /\ intervals[r] = {}
      /\ runners[r].listeners = <<>>

\* C5: a tick performs exactly stepsPerTick steps and then calls every
\* subscriber registered at that moment once, with the one payload, whose
\* iteration count at the k-th tick is k * stepsPerTick
C5_TickStepsAndNotifiesAll ==
  [][\A r \in RunIds :
       TickStep(r) =>
         /\ (runners'[r].iter - runners[r].iter) * SCALE = runners[r].stepsPerTick
         /\ emit'.called = runners[r].listeners
         /\ payloads'[r][1].iter * SCALE = ticks'[r] * runners[r].stepsPerTick]_vars

\* C6: when a callback throws during a tick every other subscriber of the run
\* is still called, the failure does not leave the tick, and the run's interval
\* stays armed
C6_FailingSubscriberIsIsolated ==
  [][\A r \in RunIds :
       (TickStep(r) /\ emit'.called # emit'.returned) =>
         /\ Range(emit'.called) = Range(runners[r].listeners)
         /\ ~crashed'
         /\ intervals'[r] = intervals[r]]_vars

C8_GetStateIsPure ==
  [][\A id \in RunIds :
       StateRoute(id) =>
         /\ UNCHANGED <<runners, map, intervals, nextHandle, sockets, ticks, payloads>>
         /\ (Registered(id) /\ payloads[id] # <<>>) =>
              /\ resp'.status = 200
              /\ resp'.body = payloads[id]]_vars

\* a state query of a run that has ticked has just been answered
C8_Witness ==
  /\ resp.op = "state"
  /\ resp.status = 200
  /\ resp.id \in RunIds
  /\ payloads[resp.id] # <<>>
  /\ runners[resp.id].iter > 0
  /\ runners[resp.id].listeners # <<>>

\* the step is a start, tick, subscribe, unsubscribe or stop of run r
StepOf(r) ==
  \/ (r = Len(runners) + 1 /\ \E body \in StartBodies : StartRoute(body))
  \/ TickStep(r)
  \/ (r \in RunIds /\ Connect(r))
  \/ \E s \in SocketIds : sockets[s].sub = r /\ Disconnect(s)
  \/ (r \in RunIds /\ StopRoute(r))

C10_DisconnectDestroysRun ==
  [][\A s \in SocketIds :
       (Disconnect(s) /\ sockets[s].sub # NoRun) =>
         /\ sockets[s].sub \notin Range(map')
         /\ intervals'[sockets[s].sub] = {}]_vars

\* ------------------------------------------------------------- eval claims
\* the configuration is one the configuration surface excludes: an unknown
\* game, or a non-positive episodes or stepsPerEp
InvalidConfiguration(body) ==
  \/ body.game \notin GameIds
  \/ body.episodes <= 0
  \/ body.stepsPerEp <= 0

\* C11: an evaluation start request with an unknown game id or a non-positive
\* episodes or stepsPerEp is answered 400 and persists nothing: no eval run
\* record, no metric row, no summary row, and no evaluation is begun
C11_InvalidEvalConfigRejected ==
  [][\A body \in EvalBodies :
       (EvalStartRoute(body) /\ body.seeds # Null /\ InvalidConfiguration(body)) =>
         /\ evalResp'.status = 400
         /\ UNCHANGED <<evalRuns, evalMetrics, evalSummaries, evalCalls>>]_allVars

\* C13: every metric row of an evaluation on Prisoner's Dilemma has coopRate
\* non-null and winA and l2Dist null; every metric row of an evaluation on
\* RPS or Matching Pennies has winA and l2Dist non-null and coopRate null
C13_MetricCompleteness ==
  \A r \in EvalRunIds : \A k \in 1..Len(evalMetrics[r]) :
    LET row == evalMetrics[r][k]
    IN /\ evalRuns[r].game = "pd" =>
            row.coopRate # Null /\ row.winA = Null /\ row.l2Dist = Null
       /\ evalRuns[r].game \in {"rps", "mp"} =>
            row.winA # Null /\ row.l2Dist # Null /\ row.coopRate = Null

\* metric rows of a Prisoner's Dilemma evaluation and of an RPS evaluation
\* have been written
C13_Witness ==
  \E r, q \in EvalRunIds :
    /\ evalRuns[r].game = "pd" /\ Len(evalMetrics[r]) >= 2
    /\ evalRuns[q].game = "rps" /\ Len(evalMetrics[q]) >= 1

RECURSIVE aloneEpisodes(_, _, _, _)
\* runEval run on its own: the rows of one seed from episode ep on
aloneEpisodes(params, seed, ep, rng) ==
  IF ep <= params.episodes
  THEN With(evalLoop(params, episodeStart(params, rng), 0), LAMBDA e :
         <<metricRow(params, seed, ep, e)>>
           \o aloneEpisodes(params, seed, ep + 1, e.rng))
  ELSE <<>>

RECURSIVE aloneSeeds(_, _)
\* runEval run on its own: the rows from seeds[si] on, each seed with a
\* generator of its own
aloneSeeds(params, si) ==
  IF si <= Len(params.seeds)
  THEN aloneEpisodes(params, params.seeds[si], 1, ToUint32(params.seeds[si]))
         \o aloneSeeds(params, si + 1)
  ELSE <<>>

\* a metric row without the id of its run
rowValues(row) ==
  [seed |-> row.seed, ep |-> row.ep, winA |-> row.winA,
   avgRewardA |-> row.avgRewardA, coopRate |-> row.coopRate, l2Dist |-> row.l2Dist]

\* the call of runEval for run r has inserted its summary
EvalComplete(r) ==
  \E c \in EvalCallIds :
    evalCalls[c].params.run_id = r /\ evalCalls[c].pc \in {"summarised", "done"}

\* C14: when a runEval call answers, the metric rows of its run are those of
\* runEval run on its own with the run's configuration, in the same order,
\* whatever other evaluation was in flight before or in between; and at every
\* moment two runs with identical configurations agree on the rows both have
\* (seed, ep, winA, avgRewardA, coopRate, l2Dist), and hold identical
\* sequences once both are complete
C14_EvalDeterministic ==
  [][/\ \A c \in EvalCallIds :
          EvalRespond(c) =>
            LET r == evalCalls[c].params.run_id
                alone == aloneSeeds(evalParams(r, evalRuns[r]), 1)
            IN /\ Len(evalMetrics'[r]) = Len(alone)
               /\ \A k \in 1..Len(alone) :
                    rowValues(evalMetrics'[r][k]) = rowValues(alone[k])
     /\ \A r, q \in 1..Len(evalRuns') :
          evalRuns'[r] = evalRuns'[q] =>
            LET n == IF Len(evalMetrics'[r]) < Len(evalMetrics'[q])
                     THEN Len(evalMetrics'[r]) ELSE Len(evalMetrics'[q])
            IN /\ \A k \in 1..n :
                    rowValues(evalMetrics'[r][k]) = rowValues(evalMetrics'[q][k])
               /\ (\A x \in {r, q} : \E c \in 1..Len(evalCalls') :
                      /\ evalCalls'[c].params.run_id = x
                      /\ evalCalls'[c].pc \in {"summarised", "done"}) =>
                    Len(evalMetrics'[r]) = Len(evalMetrics'[q])]_allVars

\* two evaluations with the same configuration, two seeds each, have both
\* completed
C14_Witness ==
  /\ Len(evalRuns) = 2
  /\ evalRuns[1] = evalRuns[2]
  /\ Len(evalRuns[1].seeds) = 2
  /\ EvalComplete(1) /\ EvalComplete(2)
  /\ Len(evalMetrics[2]) = 4

\* the number of (seed, episode) pairs of a stored run
pairCount(row) == Len(row.seeds) * (IF row.episodes > 0 THEN row.episodes ELSE 0)

\* C15: the metric rows of a run are written one per (seed, episode) pair, in
\* seed-major then episode order; a completed runEval has written exactly one
\* row per pair and exactly one summary row, and the summary row is there only
\* when all the metric rows are
C15_OneRowPerPairThenSummary ==
  \A r \in EvalRunIds :
    LET run == evalRuns[r]
        n == Len(evalMetrics[r])
    IN /\ n <= pairCount(run)
       /\ \A k \in 1..n :
            /\ evalMetrics[r][k].seed = run.seeds[((k - 1) \div run.episodes) + 1]
            /\ evalMetrics[r][k].ep = ((k - 1) % run.episodes) + 1
            /\ evalMetrics[r][k].run_id = r
       /\ Len(evalSummaries[r]) <= 1
       /\ Len(evalSummaries[r]) = 1 => n = pairCount(run)
       /\ EvalComplete(r) => (Len(evalSummaries[r]) = 1 /\ n = pairCount(run))

\* an evaluation over two seeds and two episodes has answered, with four
\* metric rows and its summary row
C15_Witness ==
  \E c \in EvalCallIds :
    LET r == evalCalls[c].params.run_id
    IN /\ evalCalls[c].pc = "done"
       /\ Len(evalRuns[r].seeds) = 2
       /\ evalRuns[r].episodes = 2
       /\ Len(evalMetrics[r]) = 4
       /\ Len(evalSummaries[r]) = 1

\* the steps of a trace that belong to (seed, ep)
RECURSIVE stepsOf(_, _, _)
stepsOf(steps, seed, ep) ==
  IF steps = <<>> THEN <<>>
  ELSE (IF Head(steps).seed = seed /\ Head(steps).ep = ep THEN <<Head(steps)>> ELSE <<>>)
         \o stepsOf(Tail(steps), seed, ep)

\* C16: the trace of a stored run follows the dynamics of its runEval: for
\* every metric row, the trace has steps for the row's (seed, episode), the
\* mean of their rewardA is the row's avgRewardA, and the fraction of them
\* with actionA = 0 is the row's coopRate when that is non-null
C16_TraceMatchesMetrics ==
  [][\A r \in EvalRunIds :
       (EvalTraceRoute(r) /\ evalRuns[r].game \in GameIds) =>
         /\ evalResp'.status = 200
         /\ \A k \in 1..Len(evalMetrics[r]) :
              LET row == evalMetrics[r][k]
                  st == stepsOf(evalResp'.body, row.seed, row.ep)
                  sumA == SumSeq([i \in 1..Len(st) |-> st[i].rewardA])
                  coop == Cardinality({i \in 1..Len(st) : st[i].actionA = 0})
              IN /\ st # <<>>
                 /\ (sumA * SCALE) \div Len(st) = row.avgRewardA
                 /\ row.coopRate # Null =>
                      (coop * SCALE) \div Len(st) = row.coopRate[1]]_allVars

\* ---------------------------------------------------------- trainer claims
\* the body gives a non-positive episodes or stepsPerEp
NonPositiveCounts(body) ==
  \/ body.episodes # Null /\ body.episodes[1] <= 0
  \/ body.stepsPerEp # Null /\ body.stepsPerEp[1] <= 0

\* the body gives a workers value outside 1..16
WorkersOutOfRange(body) ==
  body.workers # Null /\ (body.workers[1] < MinWorkers * SCALE \/ body.workers[1] > MaxWorkers * SCALE)

\* C12: a training request with a non-positive episodes or stepsPerEp, or a
\* distributed training request with workers outside 1..16, is answered 400
\* and no call of trainSelfPlay is made for it
C12_InvalidTrainConfigRejected ==
  [][/\ \A body \in TrainBodies :
          (TrainRoute(body) /\ NonPositiveCounts(body)) =>
            trainResp'.status = 400 /\ trainCall' = NoTrainCall
     /\ \A body \in DistributedBodies :
          (TrainDistributedRoute(body)
             /\ (NonPositiveCounts(body) \/ WorkersOutOfRange(body))) =>
            trainResp'.status = 400 /\ trainCall' = NoTrainCall]_allVars

\* the last response is a distributed training result
DistributedAnswered == trainResp.op = "distributed" /\ trainResp.status = 200

\* the runs whose log has a non-null winA at episode index i (1-based)
winReporters(runs, i) ==
  {w \in 1..Len(runs) : i <= Len(runs[w].logs) /\ runs[w].logs[i].winA # Null}

\* C17: in a distributed training result with N worker logs, aggregatedLogs
\* has one entry per episode, entry i has ep = i, and its avgRewardA and
\* avgRewardB are the arithmetic means over the N worker logs at that episode
C17_AggregateIsMeanOfWorkers ==
  DistributedAnswered =>
    LET runs == trainResp.body.workerRuns
        agg == trainResp.body.aggregatedLogs
        N == Len(runs)
    IN /\ \A w \in 1..N : Len(runs[w].logs) = Len(agg)
       /\ \A i \in 1..Len(agg) :
            /\ agg[i].ep = i
            /\ agg[i].avgRewardA = SumSeq([w \in 1..N |-> runs[w].logs[i].avgRewardA]) \div N
            /\ agg[i].avgRewardB = SumSeq([w \in 1..N |-> runs[w].logs[i].avgRewardB]) \div N

\* C18 as stated: winA of an aggregated entry is the mean of winA over the
\* workers that reported one, and the entry has no winA at all when no worker
\* reported one
C18_WinAOmittedWhenNoneReported ==
  DistributedAnswered =>
    LET runs == trainResp.body.workerRuns
        agg == trainResp.body.aggregatedLogs
    IN \A i \in 1..Len(agg) :
         LET rep == winReporters(runs, i)
         IN IF rep = {}
            THEN "winA" \notin DOMAIN agg[i]
            ELSE agg[i].winA =
                   <<SumSeq([w \in 1..Len(runs) |->
                       IF w \in rep THEN runs[w].logs[i].winA[1] ELSE 0]) \div Cardinality(rep)>>

\* C18 amended: winA of an aggregated entry is the mean of winA over the
\* workers that reported one, and the entry carries winA = null when no
\* worker reported one
C18_WinAMeanOfReportedOrNull ==
  DistributedAnswered =>
    LET runs == trainResp.body.workerRuns
        agg == trainResp.body.aggregatedLogs
    IN \A i \in 1..Len(agg) :
         LET rep == winReporters(runs, i)
         IN /\ "winA" \in DOMAIN agg[i]
            /\ IF rep = {}
               THEN agg[i].winA = Null
               ELSE agg[i].winA =
                      <<SumSeq([w \in 1..Len(runs) |->
                          IF w \in rep THEN runs[w].logs[i].winA[1] ELSE 0]) \div Cardinality(rep)>>

\* a distributed result on Prisoner's Dilemma, where no worker reports winA
C18_Witness ==
  /\ DistributedAnswered
  /\ trainResp.body.config.game = "pd"
  /\ Len(trainResp.body.workerRuns) = 2
  /\ Len(trainResp.body.aggregatedLogs) = 1
  /\ winReporters(trainResp.body.workerRuns, 1) = {}

\* C19: in a distributed result the i-th worker (i from 0) ran with seed
\* base_seed + i, and its log is the log of trainSelfPlay called on its own
\* with the same configuration and that seed, in whatever order the workers'
\* steps were taken; there is one worker per index below the worker count
C19_WorkersAreStandAloneRuns ==
  DistributedAnswered =>
    LET res == trainResp.body
    IN /\ Len(res.workerRuns) = arrayLength(res.workers)
       /\ \A w \in 1..Len(res.workerRuns) :
            /\ res.workerRuns[w].seed = res.base_seed + (w - 1)
            /\ res.workerRuns[w].logs =
                 trainSelfPlay([res.config EXCEPT !.seed = <<res.base_seed + (w - 1)>>]).logs

\* a distributed result of two workers over two episodes whose logs differ
C19_Witness ==
  /\ DistributedAnswered
  /\ Len(trainResp.body.workerRuns) = 2
  /\ Len(trainResp.body.workerRuns[1].logs) = 2
  /\ trainResp.body.workerRuns[1].logs # trainResp.body.workerRuns[2].logs

\* the log of a run is well formed: entry k is episode k, there is one entry
\* per episode played, and winA follows the game's kind
LogsWellFormed(run) ==
  /\ Len(run.logs) = run.ep - 1
  /\ Len(run.logs) <= trainSettings(run.cfg).episodes
  /\ run.pc = "returned" => Len(run.logs) = trainSettings(run.cfg).episodes
  /\ \A k \in 1..Len(run.logs) :
       /\ run.logs[k].ep = k
       /\ run.logs[k].winA = IF zeroSum(run.cfg.game)
                             THEN <<(run.logs[k].avgRewardA + SCALE) \div 2>> ELSE Null

\* C20: trainSelfPlay appends one log entry per completed episode, episode
\* indices 1..episodes in order, never touching the entries already there;
\* winA is (avgRewardA + 1) / 2 for a zero-sum game and null otherwise
C20_LogsAppendOnly ==
  [][\A i \in 1..Len(trainCall'.runs) :
       /\ LogsWellFormed(trainCall'.runs[i])
       /\ i \in TrainRunIds =>
            /\ SubSeq(trainCall'.runs[i].logs, 1, Len(trainCall.runs[i].logs))
                 = trainCall.runs[i].logs
            /\ Len(trainCall'.runs[i].logs) =
                 Len(trainCall.runs[i].logs)
                   + (IF trainCall'.runs[i].ep # trainCall.runs[i].ep THEN 1 ELSE 0)]_allVars

\* a run of two episodes on a zero-sum game has returned with its two entries
C20_Witness ==
  \E i \in TrainRunIds :
    /\ trainCall.runs[i].pc = "returned"
    /\ zeroSum(trainCall.runs[i].cfg.game)
    /\ Len(trainCall.runs[i].logs) = 2

\* ------------------------------------------------- claims on shared state
\* the step is one of the runEval call c: its record changes
CallStep(c) == c \in EvalCallIds /\ evalCalls'[c] # evalCalls[c]

\* C21: runEval calls for different runs, interleaved at their awaits in any
\* order, share nothing: a step of one call leaves every other call's
\* steppers, generator and accumulated rows, and every other run's metric and
\* summary rows, as they were; every row is written under the call's own
\* run_id; and the rows and the summary a call has written when it inserts
\* its summary are those of runEval run on its own
C21_ConcurrentRunsIsolated ==
  [][\A c \in EvalCallIds :
       CallStep(c) =>
         LET r == evalCalls[c].params.run_id
         IN /\ \A d \in EvalCallIds \ {c} : evalCalls'[d] = evalCalls[d]
            /\ \A q \in EvalRunIds \ {r} :
                 /\ evalMetrics'[q] = evalMetrics[q]
                 /\ evalSummaries'[q] = evalSummaries[q]
            /\ \A k \in 1..Len(evalMetrics'[r]) : evalMetrics'[r][k].run_id = r
            /\ \A k \in 1..Len(evalSummaries'[r]) : evalSummaries'[r][k].run_id = r
            /\ evalCalls'[c].pc = "summarised" =>
                 LET alone == aloneSeeds(evalCalls[c].params, 1)
                 IN /\ evalMetrics'[r] = alone
                    /\ evalSummaries'[r] = <<summaryRow(r, alone)>>]_allVars

\* two runEval calls for runs with different configurations are both between
\* two of their awaits, each with rows written, neither finished
C21_Witness ==
  \E c, d \in EvalCallIds :
    /\ evalRuns[evalCalls[c].params.run_id] # evalRuns[evalCalls[d].params.run_id]
    /\ evalCalls[c].pc = "inserted" /\ hasEpisode(evalCalls[c])
    /\ evalCalls[d].pc = "inserted" /\ hasEpisode(evalCalls[d])
    /\ evalCalls[c].metrics # <<>> /\ evalCalls[d].metrics # <<>>

\* ------------------------------------------------------ claims on rollouts
\* the rollout of the episode the run is about to play
rollout(run) == trainSteps(trainSettings(run.cfg), run, trainEpisodeStart(run), 0)

\* the observation with no opponent action encoded: the bias and zeros
blankObservation(inputDim) == <<SCALE>> \o [i \in 1..(inputDim - 1) |-> 0]

\* C22: in every episode a run plays, each player's observation at the first
\* step is the bias term followed by the zero vector, and at every later step
\* it is the bias term followed by the one-hot encoding of the opponent's
\* previous action
C22_FirstObservationIsBlank ==
  [][\A i \in TrainRunIds :
       (i \in 1..Len(trainCall'.runs) /\ trainCall'.runs[i].ep # trainCall.runs[i].ep) =>
         LET n == trainSettings(trainCall.runs[i].cfg).inputDim
             e == rollout(trainCall.runs[i])
         IN /\ e.stepsA[1].x = blankObservation(n)
            /\ e.stepsB[1].x = blankObservation(n)
            /\ \A t \in 2..Len(e.stepsA) :
                 /\ e.stepsA[t].x = <<SCALE>> \o oneHot(n - 1, e.stepsB[t - 1].action)
                 /\ e.stepsB[t].x = <<SCALE>> \o oneHot(n - 1, e.stepsA[t - 1].action)]_allVars

\* ------------------------------------------------------- claims on sampling
\* the action a strategy puts all its probability on
hotIndex(p) == CHOOSE k \in 0..(Len(p) - 1) : p[k + 1] = SCALE

\* C23: sampleIndex called with a one-hot strategy, probability 1 on index k
\* and 0 elsewhere, returns k, for every draw in [0, 1) including 0 and for
\* every position k
C23_OneHotSampledExactly ==
  sampleCall # NoSampleCall => sampleCall.index = hotIndex(sampleCall.p)

\* ------------------------------------------------------- claims on steppers
\* a strategy vector: finite non-negative entries that sum to 1, up to the
\* rounding of the division
validStrategy(p) ==
  /\ \A i \in 1..Len(p) : p[i] # NaN /\ p[i] >= 0
  /\ SumSeq(p) \in (SCALE - Len(p))..SCALE

\* weights that are finite doubles
finiteWeights(lw) == \A i \in 1..Len(lw) : lw[i] # NaN /\ lw[i] # PosInf

\* C24: after any number of Hedge steps on any of the three games, in the
\* arena and in the evaluator, the weights are finite and the strategy
\* returned is a valid strategy vector: finite non-negative entries that sum
\* to 1, no NaN and no Infinity
C24_HedgeStaysValid ==
  (bench # NoBench /\ bench.run # Null) =>
    /\ finiteWeights(bench.run[1].lwA) /\ finiteWeights(bench.run[1].lwB)
    /\ validStrategy(bench.run[1].pA) /\ validStrategy(bench.run[1].pB)
    /\ finiteWeights(bench.e[1].stepA.lw) /\ finiteWeights(bench.e[1].stepB.lw)
    /\ validStrategy(bench.e[1].pA) /\ validStrategy(bench.e[1].pB)

allEqual(u) == \A i, j \in 1..Len(u) : u[i] = u[j]
noRegret(st) == \A i \in 1..Len(st.R) : st.R[i] = 0
uniformStrategy(p) == \A i \in 1..Len(p) : p[i] = SCALE \div Len(p)

\* what the claim asks of one call of a Regret Matching stepper: st before,
\* next after, u the expected payoffs the call computed
regretStepOk(st, next, u) ==
  /\ \A i \in 1..Len(next.R) : next.R[i] # NaN /\ next.R[i] >= 0
  /\ (allEqual(u) /\ noRegret(st)) => (noRegret(next) /\ uniformStrategy(next.p))

\* C25: in the Regret Matching stepper every component of the cumulative
\* regret is non-negative after every step, and when all expected payoffs are
\* equal at every step the regret stays all-zero and the strategy returned is
\* uniform
C25_RegretNonNegative ==
  [][(bench # NoBench /\ bench'.n # bench.n) =>
       LET e == bench.e[1]
           next == bench'.e[1]
           spec == GAMES(bench.game)
       IN /\ bench.algA = "regret" =>
               regretStepOk(e.stepA, next.stepA, expectedPayoffVector(spec.A, e.pB))
          /\ bench.algB = "regret" =>
               regretStepOk(e.stepB, next.stepB, expectedPayoffVector(spec.B, next.pA))]_allVars

\* C29: for the same game, seed and learning rate the Hedge dynamics of the
\* arena and the hedge-vs-hedge dynamics of the evaluator's first episode give
\* the same strategies and the same sampled actions step for step
C29_ArenaMatchesEvaluator ==
  (bench # NoBench /\ bench.run # Null /\ bench.n > 0) =>
    LET run == bench.run[1]
        e == bench.e[1]
        last == e.steps[Len(e.steps)]
    IN /\ run.pA = e.pA
       /\ run.pB = e.pB
       /\ run.lastActionA = last.actionA
       /\ run.lastActionB = last.actionB

\* --------------------------------------------------- claims on joint counts
\* the sum of all cells of a joint-action count matrix
cellSum(m) == SumSeq([i \in 1..Len(m) |-> SumSeq(m[i])])

\* C26: in every state of an arena run and in every snapshot of it the cells
\* of the joint-action count matrix sum to the iteration counter, and each
\* simulation step adds exactly 1 to exactly one cell, the one indexed by the
\* joint action the step sampled
C26_JointCountsSumToIter ==
  [][(bench # NoBench /\ bench.run # Null /\ bench'.n # bench.n) =>
       LET run == bench.run[1]
           next == bench'.run[1]
           shot == snapshot(next)
       IN /\ cellSum(run.jointCounts) = run.iter
          /\ cellSum(next.jointCounts) = next.iter
          /\ cellSum(shot.jointCounts) = shot.iter
          /\ next.iter = run.iter + 1
          /\ \A i \in 1..Len(run.jointCounts) : \A j \in 1..Len(run.jointCounts[i]) :
               next.jointCounts[i][j] =
                 run.jointCounts[i][j] +
                   (IF i = next.lastActionA + 1 /\ j = next.lastActionB + 1 THEN 1 ELSE 0)]_allVars

C26_Witness ==
  /\ bench # NoBench /\ bench.run # Null
  /\ bench.run[1].iter > 2
  /\ \E i, j \in 1..2 : i # j /\ bench.run[1].jointCounts[i][j] > 0
  /\ \E i \in 1..2 : bench.run[1].jointCounts[i][i] > 1

\* ------------------------------------------------------ claims on scheduling
\* C27: a run never owns more than one interval handle: start on a run that
\* is running changes nothing, so every period of the scheduler gives at most
\* one tick of the run, and one stop leaves the run with no live interval
C27_OneHandlePerRun ==
  [][\A r \in RunIds :
       /\ Cardinality(intervals[r]) <= 1
       /\ r \in 1..Len(intervals') => Cardinality(intervals'[r]) <= 1
       /\ (RunnerStartCall(r) /\ runners[r].timer # NoTimer) =>
            /\ runners'[r] = runners[r]
            /\ intervals'[r] = intervals[r]
       /\ RunnerStopCall(r) =>
            /\ intervals'[r] = {}
            /\ runners'[r].timer = NoTimer]_vars

\* a run that has ticked and, stopped and started again, runs on one later
\* handle
C27_Witness ==
  \E r \in RunIds :
    /\ runners[r].timer > r + 1
    /\ intervals[r] = {runners[r].timer}
    /\ runners[r].iter > 0

\* ------------------------------------------------------- claims on observers
\* the 'tick' events socket s received from the last tick: every callback
\* that ran emitted one to the room of its run, and s is in the room it joined
\* when it connected
ticksReceived(s) ==
  IF sockets[s].connected /\ sockets[s].room = emit.run THEN Len(emit.returned) ELSE 0

\* C28: with k observers connected to a run, each of them receives exactly
\* one 'tick' event per tick of the run, for every k >= 1 and after any
\* connects and disconnects; stated for the ticks no callback threw out of
C28_OneEventPerObserver ==
  (emit.run # NoRun /\ emit.returned = emit.called) =>
    \A s \in SocketIds :
      (sockets[s].connected /\ sockets[s].room = emit.run) => ticksReceived(s) = 1

\* -------------------------------------------------- claims on worker counts
\* C30: in a distributed training result the workers value reported is the
\* number of worker run records, which is the divisor of the aggregated
\* avgRewardA and avgRewardB, and lies in 1..16, whatever number the request
\* gave as workers
C30_WorkersIsRunCount ==
  DistributedAnswered =>
    LET runs == trainResp.body.workerRuns
        agg == trainResp.body.aggregatedLogs
        N == Len(runs)
        sumA(i) == SumSeq([w \in 1..N |-> IF i <= Len(runs[w].logs)
                                          THEN runs[w].logs[i].avgRewardA ELSE 0])
        sumB(i) == SumSeq([w \in 1..N |-> IF i <= Len(runs[w].logs)
                                          THEN runs[w].logs[i].avgRewardB ELSE 0])
    IN /\ trainResp.body.workers = N * SCALE
       /\ N \in MinWorkers..MaxWorkers
       /\ \A i \in 1..Len(agg) :
            /\ agg[i].avgRewardA = Div(sumA(i), N)
            /\ agg[i].avgRewardB = Div(sumB(i), N)
====
